---- MODULE Spec2Model ----
(***************************************************************************)
(* A model of gajim's Jingle content negotiation (JingleContent, in        *)
(* src/gajim/common/jingle_content.py) and of the file-transfer window's   *)
(* progress tracking (FileTransfersWindow, in src/gajim/gtk/filetransfer.py)*)
(***************************************************************************)
EXTENDS Integers, Sequences, FiniteSets, Bags, TLC

(***************************************************************************)
(* Bounds of the model.                                                    *)
(***************************************************************************)
\* content_negotiated calls per content that the model follows
MaxNotify == 2

\* the last tick of the clock
MaxTime == 2

\* rows of the transfer list
MaxRows == 2

\* the pulse of a row is followed up to this many
MaxPulse == 2

\* the dialogs the model lets be open at a time
MaxDialogs == 2

\* the size of the transferred files, in bytes
FileSize == 2

(***************************************************************************)
(* Values.                                                                 *)
(***************************************************************************)
None == <<>>
Some(x) == <<x>>

\* the content objects of one session
Contents == {"c1", "c2"}

\* the (creator, name) key the session gives each content, and a key it
\* gives to none
KeyOf(c) == IF c = "c1" THEN <<"initiator", "file1">>
            ELSE <<"responder", "file2">>

UnknownKey == <<"initiator", "file3">>

Keys == {KeyOf(c) : c \in Contents} \cup {UnknownKey}

\* candidates a transport can gather
Candidates == {"cand1", "cand2"}

\* candidate lists parse_transport_stanza can return
CandidateLists == {<<>>, <<"cand1">>, <<"cand2">>}

\* the threshold of _fill_content: smaller files are hashed right away
HashSizeLimit == 10000000

\* the action names of JingleContent.callbacks
InboundActions ==
    {"content-accept", "content-add", "content-modify", "content-reject",
     "content-remove", "description-info", "security-info", "session-accept",
     "session-info", "session-initiate", "session-terminate",
     "transport-info", "transport-replace", "transport-accept",
     "transport-reject", "iq-result", "iq-error"}

SentActions ==
    {"content-accept-sent", "content-add-sent", "session-initiate-sent",
     "session-accept-sent", "session-terminate-sent"}

Vocabulary == InboundActions \cup SentActions

\* action names a peer can send that the table does not hold
UnknownActions == {"content-frobnicate"}

ActionNames == Vocabulary \cup UnknownActions

\* JingleContent.callbacks as built by __init__: action -> handlers in order
callbacks_table ==
    [a \in Vocabulary |->
        CASE a \in {"content-accept", "session-accept"} ->
                 <<"on_transport_info", "on_content_accept">>
          [] a \in {"content-add", "session-initiate", "transport-info"} ->
                 <<"on_transport_info">>
          [] a \in {"transport-replace", "transport-accept"} ->
                 <<"on_transport_replace">>
          [] a \in {"content-accept-sent", "session-accept-sent"} ->
                 <<"fill_jingle_stanza", "on_content_accept">>
          [] a \in {"content-add-sent", "session-initiate-sent"} ->
                 <<"fill_jingle_stanza">>
          [] OTHER -> <<>>]

VARIABLES
    content,            \* content object -> its fields
    session_contents,   \* JingleSession.contents: key -> content object
    negotiated_calls,   \* session.content_negotiated calls, per content
    lastOp,             \* the operation that ran last, and what it did
    files_props,        \* FilesProp: transfer -> its file_props
    model,              \* FileTransfersWindow.model: the rows, first on top
    now,                \* the clock, time.time()
    ftOp,               \* the transfer-window operation that ran last
    registry,           \* FilesProp._files_props: the transfers it holds
    disk,               \* the files on disk: path -> size
    dialogs             \* the bag of the dialogs that are open, with what
                        \* each holds: two can hold the same

cvars == <<content, session_contents, negotiated_calls, lastOp>>

ftvars == <<files_props, model, now, ftOp, registry, disk, dialogs>>

vars == <<content, session_contents, negotiated_calls, lastOp,
          files_props, model, now, ftOp, registry, disk, dialogs>>

\* file_props of the two contents: c1 sends a small file whose hash is not
\* known yet, c2 receives a file whose hash the peer announced
InitFileProps(c) ==
    IF c = "c1"
    THEN [type_ |-> "s", hash_ |-> None, algo |-> "sha-256",
          size |-> 8000000,
          name |-> Some("f"), date |-> Some("d"), desc |-> None]
    ELSE [type_ |-> "r", hash_ |-> Some("h"), algo |-> "sha-256",
          size |-> 12000000,
          name |-> Some("f"), date |-> Some("d"), desc |-> Some("t")]

\* JingleContent.__init__
NewContent(c) ==
    [key |-> None,
     accepted |-> FALSE,
     sent |-> FALSE,
     negotiated |-> FALSE,
     callbacks |-> Some(callbacks_table),
     remote_candidates |-> <<>>,
     file_props |-> InitFileProps(c),
     use_security |-> (c = "c1")]

\* nothing handed to the session
NoOut == [kind |-> "none", candidates |-> <<>>, candidate_error |-> FALSE]

NoOp == [op |-> "init", c |-> "none", key |-> None, action |-> "none",
         ran |-> <<>>, err |-> "none", notes |-> <<>>, node |-> <<>>,
         file |-> <<>>, out |-> NoOut, result |-> FALSE, again |-> FALSE,
         computes |-> 0, hash |-> None, cands |-> <<>>]

\* the transfers: t1 receives a file over jingle whose hash the peer
\* announced, t2 sends one
Transfers == {"t1", "t2", "t3"}

\* the transfers FilesProp holds at the start; the others are records it
\* has yet to create
Registered == {"t1", "t2"}

\* the path the received file is saved to
Paths == {"p"}

\* no file on disk
NoFiles == [p \in {} |-> 0]

\* a new file_props, as FilesProp.getNewFileProp and the code that requests
\* the transfer leave it
NewFileProp(t) ==
    [type_ |-> IF t = "t1" THEN "r" ELSE "s",
     sid |-> CASE t = "t1" -> "sid1" [] t = "t2" -> "sid2" [] OTHER -> "sid3",
     file_name |-> None,
     name |-> "f",
     desc |-> "d",
     date |-> "today",
     direction |-> None,
     continue_cb |-> FALSE,
     error |-> FALSE,
     size |-> FileSize,
     offset |-> 0,
     hash_ |-> IF t = "t1" THEN Some("h") ELSE None,
     session_type |-> "jingle",
     started |-> FALSE,
     paused |-> FALSE,
     stalled |-> FALSE,
     connected |-> FALSE,
     stopped |-> FALSE,
     completed |-> FALSE,
     elapsed_time |-> 0,
     last_time |-> 0,
     received_len |-> 0,
     transfered_size |-> <<>>]

\* what a dialog's callback finds: whether the chosen path exists, what
\* os.access says of the file and of its directory, os.name, and the
\* response to the overwrite dialog
NoEnv == [exists |-> FALSE, file_access |-> TRUE, dir_access |-> TRUE,
          os_name |-> "posix", response |-> 0, has_pywin32 |-> FALSE]

\* the file a send is asked for: whether another process holds it, whether
\* it is a regular file, and its size
NoFile == [locked |-> FALSE, isfile |-> FALSE, size |-> 0]

\* no transfer-window operation yet
NoFtOp == [op |-> "init", t |-> "none", status |-> "none", eta |-> <<0, 1>>,
           speed |-> 0, err |-> "none", had |-> <<>>, events |-> <<>>,
           env |-> NoEnv, file |-> NoFile]

Init ==
    /\ content = [c \in Contents |-> NewContent(c)]
    /\ session_contents = [k \in {} |-> "c1"]
    /\ negotiated_calls = [c \in Contents |-> 0]
    /\ lastOp = NoOp
    /\ files_props = [t \in Transfers |-> NewFileProp(t)]
    /\ model = <<>>
    /\ now = 0
    /\ ftOp = NoFtOp
    /\ registry = Registered
    /\ disk = NoFiles
    /\ dialogs = EmptyBag

(***************************************************************************)
(* The handlers.  A handler works on w: the content object (self), the     *)
(* <content> node it was handed (node: its children, file: the children of  *)
(* the description's <file>), the handlers run so far (ran) and what the    *)
(* session saw at each content_negotiated call (notes), the calls of        *)
(* _compute_hash (computes) and the <hash> element given to the <file>      *)
(* (hash).                                                                 *)
(***************************************************************************)
Work(self) == [self |-> self, node |-> <<>>, file |-> <<>>, ran |-> <<>>,
               notes |-> <<>>, computes |-> 0, hash |-> None]

\* JingleFileTransfer._compute_hash: the digest of the file, or nothing when
\* the file cannot be read or the algorithm is not supported
compute_hash(fp, hash_ok) ==
    IF hash_ok THEN [fp EXCEPT !.hash_ = Some("h")] ELSE fp

\* the children _fill_content gives the description's <file>
file_children(fp, hashed) ==
    (IF fp.name # None THEN <<"name">> ELSE <<>>)
    \o (IF fp.date # None THEN <<"date">> ELSE <<>>)
    \o (IF fp.size # 0 THEN <<"size">> ELSE <<>>)
    \o (IF hashed THEN <<"hash">> ELSE <<>>)
    \o <<"desc">>

\* _fill_content as it would be if it marked the content as sent
fill_content_marks_sent(w, hash_ok, cert) ==
    [w EXCEPT !.self.sent = TRUE,
              !.node = w.node \o <<"description">>]

\* the <hash> element of a digest: its algo attribute and its payload
hash_element(algo, digest) == Some([algo |-> algo, payload |-> digest[1]])

\* _fill_content as it would be if files of the limit's size were hashed too
fill_content_at_limit(w, hash_ok, cert) ==
    LET fp == w.self.file_props
        computes == /\ fp.type_ # "r"
                    /\ fp.size <= HashSizeLimit
                    /\ fp.hash_ = None
        fp2 == IF computes THEN compute_hash(fp, hash_ok) ELSE fp
        hash == IF fp.type_ = "r"
                THEN IF fp.hash_ # None
                     THEN hash_element(fp.algo, fp.hash_) ELSE None
                ELSE IF computes /\ fp2.hash_ # None
                     THEN hash_element(fp.algo, fp2.hash_) ELSE None
        security == IF w.self.use_security /\ cert
                    THEN <<"security">> ELSE <<>>
    IN [w EXCEPT !.self.file_props = fp2,
                 !.file = file_children(fp, hash # None),
                 !.hash = hash,
                 !.computes = @ + (IF computes THEN 1 ELSE 0),
                 !.node = w.node \o security \o <<"description">>]

\* _fill_content as it would be if it hashed whatever the direction
fill_content_any_direction(w, hash_ok, cert) ==
    LET fp == w.self.file_props
        computes == fp.size < HashSizeLimit /\ fp.hash_ = None
        fp2 == IF computes THEN compute_hash(fp, hash_ok) ELSE fp
        hash == IF fp2.hash_ # None /\ (computes \/ fp.type_ = "r")
                THEN hash_element(fp.algo, fp2.hash_) ELSE None
        security == IF w.self.use_security /\ cert
                    THEN <<"security">> ELSE <<>>
    IN [w EXCEPT !.self.file_props = fp2,
                 !.file = file_children(fp, hash # None),
                 !.hash = hash,
                 !.computes = @ + (IF computes THEN 1 ELSE 0),
                 !.node = w.node \o security \o <<"description">>]

\* JingleContent._fill_content
fill_content(w, hash_ok, cert) ==
    LET fp == w.self.file_props
        computes == /\ fp.type_ # "r"
                    /\ fp.size < HashSizeLimit
                    /\ fp.hash_ = None
        fp2 == IF computes THEN compute_hash(fp, hash_ok) ELSE fp
        hash == IF fp.type_ = "r"
                THEN IF fp.hash_ # None
                     THEN hash_element(fp.algo, fp.hash_) ELSE None
                ELSE IF computes /\ fp2.hash_ # None
                     THEN hash_element(fp.algo, fp2.hash_) ELSE None
        security == IF w.self.use_security /\ cert
                    THEN <<"security">> ELSE <<>>
    IN [w EXCEPT !.self.file_props = fp2,
                 !.file = file_children(fp, hash # None),
                 !.hash = hash,
                 !.computes = @ + (IF computes THEN 1 ELSE 0),
                 !.node = w.node \o security \o <<"description">>]

\* on_negotiated without its check of accepted
on_negotiated_unchecked(w) ==
    [w EXCEPT !.self.negotiated = TRUE,
              !.notes = Append(w.notes,
                           [sent |-> w.self.sent,
                            remote |-> w.self.remote_candidates])]

\* on_negotiated with a guard that skips an already negotiated content
on_negotiated_once(w) ==
    IF w.self.accepted /\ ~w.self.negotiated
    THEN [w EXCEPT !.self.negotiated = TRUE,
                   !.notes = Append(w.notes,
                                [sent |-> w.self.sent,
                                 remote |-> w.self.remote_candidates])]
    ELSE w

\* JingleContent.on_negotiated
on_negotiated(w) ==
    IF w.self.accepted
    THEN [w EXCEPT !.self.negotiated = TRUE,
                   !.notes = Append(w.notes,
                                [sent |-> w.self.sent,
                                 remote |-> w.self.remote_candidates])]
    ELSE w

\* __on_content_accept as it would be if the peer's accept sufficed
on_content_accept_suffices(w) == [w EXCEPT !.self.negotiated = TRUE]

\* JingleContent.__on_content_accept
on_content_accept(w) == on_negotiated(w)

\* JingleContent.add_remote_candidates
add_remote_candidates(w, candidates) ==
    [w EXCEPT !.self.remote_candidates = candidates]

\* __on_transport_info as it would be if new candidates reopened negotiation
on_transport_info_renegotiates(w, candidates) ==
    IF candidates # <<>>
    THEN [w EXCEPT !.self.remote_candidates = candidates,
                   !.self.negotiated = FALSE]
    ELSE w

\* __on_transport_info as it would be if an empty list emptied the candidates
on_transport_info_clears(w, candidates) ==
    add_remote_candidates(w, candidates)

\* JingleContent.__on_transport_info
on_transport_info(w, candidates) ==
    IF candidates # <<>> THEN add_remote_candidates(w, candidates) ELSE w

\* __on_transport_replace as it would be if it marked the content sent
on_transport_replace_marks_sent(w) ==
    [w EXCEPT !.node = Append(w.node, "transport"), !.self.sent = TRUE]

\* JingleContent.__on_transport_replace
on_transport_replace(w) == [w EXCEPT !.node = Append(w.node, "transport")]

\* __fill_jingle_stanza as it would be if sending the content accepted it
fill_jingle_stanza_accepts(w, hash_ok, cert) ==
    LET f == fill_content(w, hash_ok, cert)
    IN [f EXCEPT !.self.sent = TRUE,
                 !.self.accepted = TRUE,
                 !.node = Append(f.node, "transport")]

\* __fill_jingle_stanza as it would be if sending reopened the negotiation
fill_jingle_stanza_reopens(w, hash_ok, cert) ==
    LET f == fill_content(w, hash_ok, cert)
    IN [f EXCEPT !.self.sent = TRUE,
                 !.self.negotiated = FALSE,
                 !.node = Append(f.node, "transport")]

\* JingleContent.__fill_jingle_stanza
fill_jingle_stanza(w, hash_ok, cert) ==
    LET f == fill_content(w, hash_ok, cert)
    IN [f EXCEPT !.self.sent = TRUE,
                 !.node = Append(f.node, "transport")]

\* one callback(stanza, content, error, action) of on_stanza's loop
call(h, w, in) ==
    LET r == CASE h = "on_transport_info" -> on_transport_info(w, in.cands)
               [] h = "on_content_accept" -> on_content_accept(w)
               [] h = "on_transport_replace" -> on_transport_replace(w)
               [] h = "fill_jingle_stanza" ->
                      fill_jingle_stanza(w, in.hash_ok, in.cert)
    IN [r EXCEPT !.ran = Append(r.ran, h)]

\* the loop of on_stanza as it would be with an exit after the first handler
run_callbacks_first(hs, w, in) ==
    IF hs = <<>> THEN w ELSE call(Head(hs), w, in)

\* the loop of on_stanza: every handler of the list, in the list's order
RECURSIVE run_callbacks(_, _, _)
run_callbacks(hs, w, in) ==
    IF hs = <<>> THEN w
    ELSE run_callbacks(Tail(hs), call(Head(hs), w, in), in)

\* on_stanza as it would be if an unknown action fell back to a handler
on_stanza_default(self, action, in) ==
    LET table == self.callbacks[1]
    IN IF action \in DOMAIN table
       THEN run_callbacks(table[action], Work(self), in)
       ELSE run_callbacks(<<"on_transport_info">>, Work(self), in)

\* JingleContent.on_stanza on a content whose callbacks are a table
on_stanza(self, action, in) ==
    LET table == self.callbacks[1]
    IN IF action \in DOMAIN table
       THEN run_callbacks(table[action], Work(self), in)
       ELSE Work(self)

\* is_ready as it would be without its look at sent
is_ready_ignores_sent(self) == self.accepted

\* JingleContent.is_ready
is_ready(self) == self.accepted /\ ~self.sent

\* the handlers on_stanza finds for an action
HandlersOf(self, action) ==
    IF self.callbacks # None /\ action \in DOMAIN self.callbacks[1]
    THEN self.callbacks[1][action] ELSE <<>>

Range(f) == {f[i] : i \in DOMAIN f}

\* what the handlers read besides the content: the candidates parsed from
\* the stanza, whether the file could be hashed, whether a certificate loads
InputsFor(hs, CL, BS) ==
    [cands : IF "on_transport_info" \in Range(hs) THEN CL ELSE {<<>>},
     hash_ok : IF "fill_jingle_stanza" \in Range(hs) THEN BS ELSE {FALSE},
     cert : IF "fill_jingle_stanza" \in Range(hs) THEN BS ELSE {FALSE}]

\* what an operation leaves in lastOp
Done(op, c, action, w, err) ==
    [NoOp EXCEPT !.op = op, !.c = c, !.action = action, !.ran = w.ran,
                 !.err = err, !.notes = w.notes, !.node = w.node,
                 !.file = w.file, !.computes = w.computes, !.hash = w.hash]

\* lastOp after operation r; again tells that the operation before it was
\* the same call
Record(r) ==
    /\ lastOp' = [r EXCEPT !.again = /\ lastOp.op = r.op
                                     /\ lastOp.c = r.c
                                     /\ lastOp.key = r.key
                                     /\ lastOp.action = r.action]
    /\ UNCHANGED ftvars

\* JingleContent.destroy: the content's own fields
destroy_self(self) == [self EXCEPT !.callbacks = None]

\* destroy as it would be if it left the session's map alone
destroy_entry_keeps(map, self) == map

\* destroy as it would be if it emptied the session's map
destroy_entry_clears(map, self) == [x \in {} |-> map[x]]

\* JingleContent.destroy: del self.session.contents[(self.creator, self.name)]
destroy_entry(map, self) == [x \in DOMAIN map \ {self.key} |-> map[x]]

(***************************************************************************)
(* The operations.                                                         *)
(***************************************************************************)
\* whether the session's map holds content c
Live(c) ==
    /\ content[c].key \in DOMAIN session_contents
    /\ session_contents[content[c].key] = c

\* JingleSession.add_content: names the content and registers it
AddContent(c) ==
    /\ content[c].key = None
    /\ content' = [content EXCEPT ![c].key = KeyOf(c)]
    /\ session_contents' =
           [x \in DOMAIN session_contents \cup {KeyOf(c)} |->
               IF x = KeyOf(c) THEN c ELSE session_contents[x]]
    /\ Record([NoOp EXCEPT !.op = "add_content", !.c = c])
    /\ UNCHANGED negotiated_calls

\* the session accepts the content locally: content.accepted = True
Accept(c) ==
    /\ content' = [content EXCEPT ![c].accepted = TRUE]
    /\ Record([NoOp EXCEPT !.op = "accept", !.c = c])
    /\ UNCHANGED <<session_contents, negotiated_calls>>

\* the commit as it would be if the contents shared their transport
Commit_shared_transport(c, w) ==
    /\ negotiated_calls[c] + Len(w.notes) <= MaxNotify
    /\ content' = [d \in Contents |->
                     IF d = c THEN w.self
                     ELSE [content[d] EXCEPT !.remote_candidates =
                              w.self.remote_candidates]]
    /\ negotiated_calls' =
           [negotiated_calls EXCEPT ![c] = @ + Len(w.notes)]

\* content c after an operation that ended in w
Commit(c, w) ==
    /\ negotiated_calls[c] + Len(w.notes) <= MaxNotify
    /\ content' = [content EXCEPT ![c] = w.self]
    /\ negotiated_calls' =
           [negotiated_calls EXCEPT ![c] = @ + Len(w.notes)]

\* content.on_stanza(stanza, content, error, action), called on the object;
\* on a destroyed content callbacks is None and the lookup raises TypeError
OnStanza(c, action, in) ==
    /\ IF content[c].callbacks = None
       THEN /\ Record(Done("on_stanza", c, action, Work(content[c]),
                              "TypeError"))
            /\ UNCHANGED <<content, negotiated_calls>>
       ELSE LET w == on_stanza(content[c], action, in)
            IN /\ Commit(c, w)
               /\ Record([Done("on_stanza", c, action, w, "none")
                             EXCEPT !.cands = in.cands])
    /\ UNCHANGED session_contents

\* the session routes an action of the peer to the content of the key the
\* stanza names; for a key its map does not hold the action is dropped
Deliver(k, action, CL, BS) ==
    IF k \in DOMAIN session_contents
    THEN \E in \in InputsFor(HandlersOf(content[session_contents[k]], action),
                             CL, BS) :
             OnStanza(session_contents[k], action, in)
    ELSE /\ Record([NoOp EXCEPT !.op = "dropped", !.key = k,
                                   !.action = action])
         /\ UNCHANGED <<content, session_contents, negotiated_calls>>

\* JingleContent.on_negotiated, called by the session
OnNegotiated(c) ==
    LET w == on_negotiated(Work(content[c]))
    IN /\ Commit(c, w)
       /\ Record(Done("on_negotiated", c, "none", w, "none"))
       /\ UNCHANGED session_contents

\* JingleContent.is_ready
IsReady(c) ==
    /\ Record([NoOp EXCEPT !.op = "is_ready", !.c = c,
                              !.result = is_ready(content[c])])
    /\ UNCHANGED <<content, session_contents, negotiated_calls>>

\* send_candidate as it would be if it sent the candidates it holds as well
SendCandidate_with_remote(c, candidate) ==
    /\ Record([NoOp EXCEPT !.op = "send_candidate", !.c = c,
                      !.cands = <<candidate>>,
                      !.node = <<"transport">>,
                      !.out = [kind |-> "transport-info",
                               candidates |-> <<candidate>>
                                   \o content[c].remote_candidates,
                               candidate_error |-> FALSE]])
    /\ UNCHANGED <<content, session_contents, negotiated_calls>>

\* JingleContent.send_candidate
SendCandidate(c, candidate) ==
    /\ Record([NoOp EXCEPT !.op = "send_candidate", !.c = c,
                      !.cands = <<candidate>>,
                      !.node = <<"transport">>,
                      !.out = [kind |-> "transport-info",
                               candidates |-> <<candidate>>,
                               candidate_error |-> FALSE]])
    /\ UNCHANGED <<content, session_contents, negotiated_calls>>

\* JingleContent.send_error_candidate
SendErrorCandidate(c) ==
    /\ Record([NoOp EXCEPT !.op = "send_error_candidate", !.c = c,
                      !.node = <<"transport">>,
                      !.out = [kind |-> "transport-info",
                               candidates |-> <<>>,
                               candidate_error |-> TRUE]])
    /\ UNCHANGED <<content, session_contents, negotiated_calls>>

\* JingleContent.send_description_info
SendDescriptionInfo(c, hash_ok, cert) ==
    LET w == fill_content(Work(content[c]), hash_ok, cert)
    IN /\ Commit(c, w)
       /\ Record([Done("send_description_info", c, "none", w, "none")
                        EXCEPT !.out = [NoOut EXCEPT
                                           !.kind = "description-info"]])
       /\ UNCHANGED session_contents

\* JingleContent.add_remote_candidates, called on the object
AddRemoteCandidates(c, candidates) ==
    LET w == add_remote_candidates(Work(content[c]), candidates)
    IN /\ Commit(c, w)
       /\ Record([Done("add_remote_candidates", c, "none", w, "none")
                        EXCEPT !.cands = candidates])
       /\ UNCHANGED session_contents

\* JingleContent.destroy: callbacks become None, then the entry of the
\* content's key is deleted from the session's map; for a key the map does
\* not hold (a content never added, or destroyed before) del raises KeyError
Destroy(c) ==
    /\ content' = [content EXCEPT ![c] = destroy_self(content[c])]
    /\ IF content[c].key \in DOMAIN session_contents
       THEN /\ session_contents' =
                   destroy_entry(session_contents, content[c])
            /\ Record([NoOp EXCEPT !.op = "destroy", !.c = c])
       ELSE /\ UNCHANGED session_contents
            /\ Record([NoOp EXCEPT !.op = "destroy", !.c = c,
                                      !.err = "KeyError"])
    /\ UNCHANGED negotiated_calls

\* the steps of the contents CS, with the peer's actions drawn from AS, the
\* candidate lists from CL and the outcomes of hashing and of loading the
\* certificate from BS.  The session adds the contents it created (never one
\* that was destroyed), accepts the contents of its map and routes the peer's
\* actions to them; the methods of a content can be called on any content
\* object, added to the session or not, destroyed or not.
Step(CS, AS, CL, BS) ==
    \/ \E c \in CS : content[c].callbacks # None /\ AddContent(c)
    \/ \E c \in CS : Live(c) /\ Accept(c)
    \/ \E c \in CS, a \in AS :
         /\ content[c].callbacks = None
         /\ OnStanza(c, a, [cands |-> <<>>, hash_ok |-> FALSE,
                            cert |-> FALSE])
    \/ \E k \in Keys, a \in AS : Deliver(k, a, CL, BS)
    \/ \E c \in CS : OnNegotiated(c)
    \/ \E c \in CS : IsReady(c)
    \/ \E c \in CS, cl \in CL : AddRemoteCandidates(c, cl)
    \/ \E c \in CS, cl \in CL \ {<<>>} : SendCandidate(c, cl[1])
    \/ \E c \in CS : SendErrorCandidate(c)
    \/ \E c \in CS, hash_ok \in BS, cert \in BS :
         SendDescriptionInfo(c, hash_ok, cert)
    \/ \E c \in CS : Destroy(c)

\* one content, every action name and every candidate list
Next == Step({"c1"}, ActionNames, CandidateLists, BOOLEAN)

Spec == Init /\ [][Next]_vars

\* the actions of the peer in a session with two contents
SessionActions == {"session-accept", "session-accept-sent"}

\* a session with two contents
NextSession == Step(Contents, SessionActions, {<<"cand1">>}, {TRUE})

SpecSession == Init /\ [][NextSession]_vars

\* one action of every kind of the table: accepting, merging candidates,
\* answering with the transport, filling the stanza sent, reserved
PairActions ==
    {"session-accept", "transport-info", "transport-replace",
     "session-initiate-sent", "content-remove"}

\* two contents of one session and what the peer and the session do to each
NextPair == Step(Contents, PairActions, {<<"cand1">>}, {TRUE})

SpecPair == Init /\ [][NextPair]_vars

\* the sizes of the files of a content, around the limit of _fill_content
FileSizes == {8000000, HashSizeLimit - 1, HashSizeLimit, 12000000}

\* one content whose file is sent or received, of any of the sizes, with or
\* without a hash
InitFill ==
    /\ \E typ \in {"s", "r"}, h \in {None, Some("h0")}, size \in FileSizes,
          algo \in {"sha-1", "sha-256"} :
         content = [c \in Contents |->
                       IF c = "c1"
                       THEN [NewContent(c) EXCEPT
                                !.file_props.type_ = typ,
                                !.file_props.hash_ = h,
                                !.file_props.size = size,
                                !.file_props.algo = algo]
                       ELSE NewContent(c)]
    /\ session_contents = [k \in {} |-> "c1"]
    /\ negotiated_calls = [c \in Contents |-> 0]
    /\ lastOp = NoOp
    /\ files_props = [t \in Transfers |-> NewFileProp(t)]
    /\ model = <<>>
    /\ now = 0
    /\ ftOp = NoFtOp
    /\ registry = Registered
    /\ disk = NoFiles
    /\ dialogs = EmptyBag

\* the actions that fill the content, and one that does not
FillActions == {"session-initiate-sent", "content-accept-sent",
                "transport-info"}

NextFill == Step({"c1"}, FillActions, {<<"cand1">>}, BOOLEAN)

SpecFill == InitFill /\ [][NextFill]_vars

(***************************************************************************)
(* The file-transfer window.  Its methods work on st: the file_props of    *)
(* the transfers (props), the rows of the list (rows) and what the method  *)
(* computed (status, eta, speed, err).                                     *)
(***************************************************************************)
\* GLib.MAXINT32, the pulse of a row whose transfer is over
MAXINT32 == 2147483647

\* the samples set_progress keeps
MaxSamples == 6

\* round(float(a) / b): to the nearest integer, a tie to the even one
Round(a, b) ==
    LET q == a \div b
        r == a % b
    IN IF 2 * r < b THEN q
       ELSE IF 2 * r > b THEN q + 1
       ELSE IF q % 2 = 0 THEN q ELSE q + 1

FtState(props, rows) ==
    [props |-> props, rows |-> rows, status |-> "none", eta |-> <<0, 1>>,
     speed |-> 0, err |-> "none", registry |-> registry, disk |-> disk,
     events |-> <<>>, env |-> NoEnv, file |-> NoFile, dialogs |-> dialogs]

\* FileTransfersWindow.get_iter_by_sid: the first row of the transfer, or 0
get_iter_by_sid(rows, typ, sid) ==
    LET hits == {i \in DOMAIN rows : rows[i].sid = <<typ, sid>>}
    IN IF hits = {} THEN 0
       ELSE CHOOSE i \in hits : \A j \in hits : i <= j

\* FileTransfersWindow.set_status
set_status(st, t, status) ==
    LET fp == st.props[t]
        iter_ == get_iter_by_sid(st.rows, fp.type_, fp.sid)
    IN IF iter_ = 0 THEN st
       ELSE [st EXCEPT
               !.props[t].stopped = IF status = "stop" THEN TRUE ELSE @,
               !.props[t].completed = IF status = "ok" THEN TRUE ELSE @,
               !.rows[iter_].pulse =
                   IF status \in {"ok", "hash_error"} THEN MAXINT32
                   ELSE IF status = "computing" THEN 1 ELSE @,
               !.rows[iter_].timeouts =
                   IF status = "computing" THEN @ + 1 ELSE @,
               !.rows[iter_].image = status]

\* pulse(), the callback set_status registers with GLib.timeout_add for a
\* row that is computing: it adds one to the pulse of the row and stays
\* registered, or finds the pulse at MAXINT32 and is not called again
pulse(rows, iter_) ==
    IF rows[iter_].pulse = MAXINT32
    THEN [rows EXCEPT ![iter_].timeouts = @ - 1]
    ELSE [rows EXCEPT ![iter_].pulse = @ + 1]

\* _get_eta_and_speed as it would be with the rate of the last interval
get_eta_and_speed_last_interval(full_size, transfered_size, fp) ==
    LET samples == fp.transfered_size
        first == samples[IF Len(samples) > 1 THEN Len(samples) - 1 ELSE 1]
        last == samples[Len(samples)]
        zero == <<<<0, 1>>, 0, "none">>
        result(speed) ==
            IF speed = 0 THEN zero
            ELSE <<<<full_size - transfered_size, speed>>, speed, "none">>
    IN IF samples = <<>> THEN zero
       ELSE IF Len(samples) = 1
       THEN IF fp.elapsed_time = 0
            THEN <<<<0, 1>>, 0, "ZeroDivisionError">>
            ELSE result(Round(transfered_size, fp.elapsed_time))
       ELSE IF last[1] - first[1] = 0 THEN zero
       ELSE result(Round(last[2] - first[2], last[1] - first[1]))

\* _get_eta_and_speed as it would be if it divided by the elapsed time also
\* when no sample is retained
get_eta_and_speed_always_divides(full_size, transfered_size, fp) ==
    LET samples == fp.transfered_size
        first == samples[1]
        last == samples[Len(samples)]
        zero == <<<<0, 1>>, 0, "none">>
        result(speed) ==
            IF speed = 0 THEN zero
            ELSE <<<<full_size - transfered_size, speed>>, speed, "none">>
    IN IF Len(samples) <= 1
       THEN IF fp.elapsed_time = 0
            THEN <<<<0, 1>>, 0, "ZeroDivisionError">>
            ELSE result(Round(transfered_size, fp.elapsed_time))
       ELSE IF last[1] - first[1] = 0 THEN zero
       ELSE result(Round(last[2] - first[2], last[1] - first[1]))

\* _get_eta_and_speed as it would be if the eta were that of the whole file
get_eta_and_speed_whole_file(full_size, transfered_size, fp) ==
    LET samples == fp.transfered_size
        first == samples[1]
        last == samples[Len(samples)]
        zero == <<<<0, 1>>, 0, "none">>
        result(speed) ==
            IF speed = 0 THEN zero
            ELSE <<<<full_size, speed>>, speed, "none">>
    IN IF samples = <<>> THEN zero
       ELSE IF Len(samples) = 1
       THEN IF fp.elapsed_time = 0
            THEN <<<<0, 1>>, 0, "ZeroDivisionError">>
            ELSE result(Round(transfered_size, fp.elapsed_time))
       ELSE IF last[1] - first[1] = 0 THEN zero
       ELSE result(Round(last[2] - first[2], last[1] - first[1]))

\* FileTransfersWindow._get_eta_and_speed: <<eta, speed, error>>, the eta as
\* the fraction <<remaining bytes, speed>>
get_eta_and_speed(full_size, transfered_size, fp) ==
    LET samples == fp.transfered_size
        first == samples[1]
        last == samples[Len(samples)]
        zero == <<<<0, 1>>, 0, "none">>
        result(speed) ==
            IF speed = 0 THEN zero
            ELSE <<<<full_size - transfered_size, speed>>, speed, "none">>
    IN IF samples = <<>> THEN zero
       ELSE IF Len(samples) = 1
       THEN IF fp.elapsed_time = 0
            THEN <<<<0, 1>>, 0, "ZeroDivisionError">>
            ELSE result(Round(transfered_size, fp.elapsed_time))
       ELSE IF last[1] - first[1] = 0 THEN zero
       ELSE result(Round(last[2] - first[2], last[1] - first[1]))

\* the samples as they would be kept without the pop of the oldest one
record_sample_keeps_all(fp, transfered_size) ==
    IF fp.elapsed_time > 0
    THEN [fp EXCEPT !.transfered_size =
                        Append(@, <<fp.last_time, transfered_size>>)]
    ELSE fp

\* FileTransfersWindow.set_progress: the new sample (time, bytes), and the
\* oldest one dropped when more than six are held
record_sample(fp, transfered_size) ==
    LET s1 == IF fp.elapsed_time > 0
              THEN Append(fp.transfered_size,
                          <<fp.last_time, transfered_size>>)
              ELSE fp.transfered_size
        s2 == IF Len(s1) > MaxSamples THEN Tail(s1) ELSE s1
    IN [fp EXCEPT !.transfered_size = s2]

\* the status set_progress as it would be if a pause hid a lost connection
derive_status_pause_first(fp) ==
    IF fp.paused THEN "pause"
    ELSE IF ~fp.connected THEN "stop"
    ELSE IF fp.stalled THEN "waiting"
    ELSE IF fp.type_ = "r" THEN "download" ELSE "upload"

\* FileTransfersWindow.set_progress: the guess of the status image
derive_status(fp) ==
    LET s1 == IF fp.type_ = "r" THEN "download" ELSE "upload"
        s2 == IF fp.paused = TRUE THEN "pause"
              ELSE IF fp.stalled = TRUE THEN "waiting" ELSE s1
    IN IF fp.connected = FALSE THEN "stop" ELSE s2

\* the status of a finished transfer as it would be without the hash check
finish_status_ok(fp) == "ok"

\* FileTransfersWindow.set_progress: the status at transfered_size ==
\* full_size
finish_status(fp) ==
    IF fp.type_ = "r" /\ fp.session_type = "jingle" /\ fp.hash_ # None
    THEN "computing" ELSE "ok"

\* the whole percents k for which the double float(n) / full * 100 of a
\* transfer at k.95 percent is above k.95: round(percent, 1) is k + 1 for
\* them and k.9 for the others (the double depends on k alone, n / full
\* being (20k + 19) / 2000)
PercentTiesUp ==
    {3, 4, 6, 7, 9, 12, 13, 15, 16, 19, 26, 27, 32, 33, 36, 37, 38,
     39, 42, 43, 44, 45, 49, 55, 56, 57, 58, 59, 60, 61, 64, 65, 66,
     67, 68, 69, 70, 71, 72, 73, 74, 76, 77, 78, 79, 80, 81, 82, 83,
     84, 85, 86, 89, 90, 91, 92, 93, 94, 95, 96, 97, 98, 99}

\* FileTransfersWindow.set_progress: int(round(float(transfered_size) /
\* full_size * 100, 1)), for 0 <= transfered_size <= full_size.  The double
\* is within 1e-13 of the quotient, which is either k.95 or further from it
\* than that, so that away from k.95 the rounding is the exact one
percent_of(transfered_size, full_size) ==
    LET k == (100 * transfered_size) \div full_size
        r == (100 * transfered_size) % full_size
    IN IF full_size = 0 THEN 0
       ELSE IF 20 * r > 19 * full_size THEN k + 1
       ELSE IF 20 * r = 19 * full_size /\ k \in PercentTiesUp THEN k + 1
       ELSE k

\* FileTransfersWindow.set_progress, from the row on
set_progress_row(st, t, transfered_size, iter_) ==
    LET fp == st.props[t]
        percent == percent_of(transfered_size, fp.size)
        done == IF fp.offset # 0 THEN transfered_size - fp.offset
                ELSE transfered_size
        full == IF fp.offset # 0 THEN fp.size - fp.offset ELSE fp.size
        fp2 == record_sample(fp, done)
        es == get_eta_and_speed(full, done, fp2)
        status == derive_status(fp2)
        st2 == [st EXCEPT !.props[t] = fp2]
    IN IF es[3] # "none" THEN [st2 EXCEPT !.err = es[3]]
       ELSE LET st3 == [st2 EXCEPT !.rows[iter_].percent = percent,
                                   !.rows[iter_].image = status,
                                   !.status = status,
                                   !.eta = es[1],
                                   !.speed = es[2]]
            IN IF done = full
               THEN set_status(st3, t, finish_status(fp))
               ELSE st3

\* FileTransfersWindow.set_progress
set_progress(st, t, transfered_size, iter_) ==
    LET fp == st.props[t]
        it == IF iter_ = 0 THEN get_iter_by_sid(st.rows, fp.type_, fp.sid)
              ELSE iter_
    IN IF it = 0 THEN st ELSE set_progress_row(st, t, transfered_size, it)

\* the row model.prepend() gives, before its columns are set
EmptyRow == [sid |-> None, percent |-> 0, image |-> "none", pulse |-> 0,
             timeouts |-> 0]

\* FileTransfersWindow.add_transfer; for a receive that has no file_name
\* os.path.split raises TypeError, the empty row being in the list already
add_transfer(st, t) ==
    LET fp == st.props[t]
        row == [EmptyRow EXCEPT !.sid = <<fp.type_, fp.sid>>, !.pulse = -1]
        st0 == [st EXCEPT !.props[t].elapsed_time = 0,
                          !.rows = <<EmptyRow>> \o st.rows]
        st1 == [st0 EXCEPT !.rows[1] = row]
        st2 == set_progress(st1, t, 0, 1)
        status == IF fp.started = FALSE THEN "waiting"
                  ELSE IF fp.type_ = "r" THEN "download" ELSE "upload"
    IN IF fp.type_ = "r" /\ fp.file_name = None
       THEN [st0 EXCEPT !.err = "TypeError"]
       ELSE IF st2.err # "none" THEN st2 ELSE set_status(st2, t, status)

\* bytestream.is_transfer_paused
is_transfer_paused(fp) == ~fp.stopped /\ ~fp.completed /\ fp.paused

\* bytestream.is_transfer_active
is_transfer_active(fp) == ~fp.stopped /\ ~fp.completed /\ fp.started

\* the pause button as it would be if pausing kept the samples
pause_restore_keeps_samples(st, t, time) ==
    LET fp == st.props[t]
        called == IF fp.continue_cb THEN <<"continue_cb">> ELSE <<>>
    IN IF is_transfer_paused(fp)
       THEN set_status([st EXCEPT !.props[t].last_time = time,
                                  !.props[t].paused = FALSE,
                                  !.events = called],
                       t, IF fp.type_ = "r" THEN "download" ELSE "upload")
       ELSE IF is_transfer_active(fp)
       THEN set_status([st EXCEPT !.props[t].paused = TRUE], t, "pause")
       ELSE st

\* the pause button as it would be if continuing kept the old last_time
pause_restore_stale_clock(st, t, time) ==
    LET fp == st.props[t]
        called == IF fp.continue_cb THEN <<"continue_cb">> ELSE <<>>
    IN IF is_transfer_paused(fp)
       THEN set_status([st EXCEPT !.props[t].paused = FALSE,
                                  !.events = called],
                       t, IF fp.type_ = "r" THEN "download" ELSE "upload")
       ELSE IF is_transfer_active(fp)
       THEN LET st1 == set_status([st EXCEPT !.props[t].paused = TRUE],
                                  t, "pause")
            IN [st1 EXCEPT !.props[t].transfered_size = <<>>]
       ELSE st

\* FileTransfersWindow.on_pause_restore_button_clicked, transfer t selected
pause_restore(st, t, time) ==
    LET fp == st.props[t]
        called == IF fp.continue_cb THEN <<"continue_cb">> ELSE <<>>
    IN IF is_transfer_paused(fp)
       THEN set_status([st EXCEPT !.props[t].last_time = time,
                                  !.props[t].paused = FALSE,
                                  !.events = called],
                       t, IF fp.type_ = "r" THEN "download" ELSE "upload")
       ELSE IF is_transfer_active(fp)
       THEN LET st1 == set_status([st EXCEPT !.props[t].paused = TRUE],
                                  t, "pause")
            IN [st1 EXCEPT !.props[t].transfered_size = <<>>]
       ELSE st

\* the state after a method that ended in st
FtCommit(op, t, st) ==
    /\ files_props' = st.props
    /\ model' = st.rows
    /\ ftOp' = [op |-> op, t |-> t, status |-> st.status, eta |-> st.eta,
                speed |-> st.speed, err |-> st.err,
                had |-> files_props[t].transfered_size,
                events |-> st.events, env |-> st.env, file |-> st.file]
    /\ registry' = st.registry
    /\ disk' = st.disk
    /\ dialogs' = st.dialogs
    /\ UNCHANGED cvars

\* add_transfer(account, contact, file_props)
AddTransfer(t) ==
    /\ Len(model) < MaxRows
    /\ FtCommit("add_transfer", t, add_transfer(FtState(files_props, model), t))
    /\ UNCHANGED now

\* the transport connects, loses the connection, stalls or goes on
TransportState(t, started, connected, stalled) ==
    /\ files_props' = [files_props EXCEPT ![t].started = started,
                                          ![t].connected = connected,
                                          ![t].stalled = stalled]
    /\ ftOp' = [NoFtOp EXCEPT !.op = "transport", !.t = t]
    /\ UNCHANGED <<model, now, registry, disk, dialogs>>
    /\ UNCHANGED cvars

\* the files on disk once the transport has n bytes of a transfer: the
\* bytes of a receive are in the file it is saved to
written(files, fp, n) ==
    IF fp.type_ = "r" /\ fp.file_name # None /\ n > 0
    THEN [p \in DOMAIN files \cup {fp.file_name[1]} |->
            IF p = fp.file_name[1] THEN n ELSE files[p]]
    ELSE files

\* the transport has moved bytes after dt ticks: it accounts for the time
\* and the bytes, and the window is told the progress
Progress(t, dt, n) ==
    /\ now + dt <= MaxTime
    /\ n >= files_props[t].received_len
    /\ now' = now + dt
    /\ LET fp == files_props[t]
           props == [files_props EXCEPT
                        ![t].elapsed_time = @ + (now' - fp.last_time),
                        ![t].last_time = now',
                        ![t].received_len = n]
           st == [FtState(props, model) EXCEPT !.disk = written(disk, fp, n)]
       IN FtCommit("set_progress", t, set_progress(st, t, n, 0))

\* the pause/continue button with the row of transfer t selected: it
\* continues a paused transfer, pauses an active one, and does nothing to
\* any other
PauseRestore(t, dt) ==
    /\ now + dt <= MaxTime
    /\ get_iter_by_sid(model, files_props[t].type_, files_props[t].sid) # 0
    /\ now' = now + dt
    /\ FtCommit(IF is_transfer_paused(files_props[t]) THEN "continue"
                ELSE IF is_transfer_active(files_props[t]) THEN "pause"
                ELSE "pause_restore",
                t, pause_restore(FtState(files_props, model), t, now'))

\* the row of transfer t, or 0
RowOfRecord(t) ==
    get_iter_by_sid(model, files_props[t].type_, files_props[t].sid)

\* the hash of the received file was computed and matches the expected one:
\* the transfer is shown as completed
HashVerified(t) ==
    /\ LET fp == files_props[t]
           iter_ == get_iter_by_sid(model, fp.type_, fp.sid)
       IN /\ iter_ # 0
          /\ model[iter_].image = "computing"
          /\ ~fp.completed
    /\ FtCommit("hash_verified", t,
                set_status(FtState(files_props, model), t, "ok"))
    /\ UNCHANGED now

\* the event loop calls pulse() for row iter_, which has a timeout
\* registered
Pulse(iter_) ==
    /\ iter_ \in DOMAIN model
    /\ model[iter_].timeouts > 0
    /\ model[iter_].pulse = MAXINT32 \/ model[iter_].pulse < MaxPulse
    /\ model' = pulse(model, iter_)
    /\ ftOp' = [NoFtOp EXCEPT !.op = "pulse"]
    /\ UNCHANGED <<files_props, now, registry, disk, dialogs>>
    /\ UNCHANGED cvars

\* the steps of the transfers TS, the clock advancing by one of DTS with
\* every callback of the transport and every press of the pause button
StepFT(TS, DTS) ==
    \/ \E t \in TS : AddTransfer(t)
    \/ \E iter_ \in 1..MaxRows : Pulse(iter_)
    \/ \E t \in TS, a \in BOOLEAN, b \in BOOLEAN, c \in BOOLEAN :
         TransportState(t, a, b, c)
    \/ \E t \in TS, dt \in DTS, n \in 0..FileSize : Progress(t, dt, n)
    \/ \E t \in TS, dt \in DTS : PauseRestore(t, dt)
    \/ \E t \in TS : HashVerified(t)

\* the transfers a window can be given: a receive over jingle whose hash
\* the peer announced, the same over a socks5 bytestream, a receive without
\* a hash, and a send
TransferKinds ==
    {[type_ |-> "r", hash_ |-> Some("h"), session_type |-> "jingle"],
     [type_ |-> "r", hash_ |-> Some("h"), session_type |-> "bytestream"],
     [type_ |-> "r", hash_ |-> None, session_type |-> "jingle"],
     [type_ |-> "s", hash_ |-> None, session_type |-> "jingle"]}

\* a new file_props of kind k; a receive has the path it is saved to
FilePropOf(t, k) ==
    [NewFileProp(t) EXCEPT !.type_ = k.type_, !.hash_ = k.hash_,
                           !.session_type = k.session_type,
                           !.file_name = IF k.type_ = "r" THEN Some("p")
                                         ELSE None]

\* one transfer, a receive or a send
InitFT ==
    /\ content = [c \in Contents |-> NewContent(c)]
    /\ session_contents = [k \in {} |-> "c1"]
    /\ negotiated_calls = [c \in Contents |-> 0]
    /\ lastOp = NoOp
    /\ \E k \in TransferKinds :
         files_props = [t \in Transfers |->
                           IF t = "t1" THEN FilePropOf(t, k)
                           ELSE NewFileProp(t)]
    /\ model = <<>>
    /\ now = 0
    /\ ftOp = NoFtOp
    /\ registry = Registered
    /\ disk = NoFiles
    /\ dialogs = EmptyBag

NextFT == StepFT({"t1"}, {1})

SpecFT == InitFT /\ [][NextFT]_vars

\* the unit of the byte counts the estimate is followed with
ByteUnit == 100

\* the byte counts the transport reports
ByteCounts == {0, ByteUnit, 3 * ByteUnit}

\* the offsets a transfer starts from: the beginning of the file, or the
\* end of the part found on disk
Offsets == {0, ByteUnit}

\* a send that the transport started and connected one tick before the
\* clock's zero, from offset o, with 3 * ByteUnit bytes beyond the offset
EstimateProp(t, o) ==
    [NewFileProp(t) EXCEPT !.type_ = "s", !.hash_ = None,
                           !.size = 3 * ByteUnit + o, !.offset = o,
                           !.received_len = o, !.last_time = -1,
                           !.started = TRUE, !.connected = TRUE]

InitEstimate ==
    /\ content = [c \in Contents |-> NewContent(c)]
    /\ session_contents = [k \in {} |-> "c1"]
    /\ negotiated_calls = [c \in Contents |-> 0]
    /\ lastOp = NoOp
    /\ \E o \in Offsets :
         files_props = [t \in Transfers |->
                           IF t = "t1" THEN EstimateProp(t, o)
                           ELSE NewFileProp(t)]
    /\ model = <<>>
    /\ now = 0
    /\ ftOp = NoFtOp
    /\ registry = Registered
    /\ disk = NoFiles
    /\ dialogs = EmptyBag

\* the transfer in its window: progress callbacks arrive in the same tick
\* or a tick later, the user presses the pause button a tick later
NextEstimate ==
    \/ AddTransfer("t1")
    \/ \E dt \in {0, 1}, n \in ByteCounts : Progress("t1", dt, n)
    \/ PauseRestore("t1", 1)

SpecEstimate == InitEstimate /\ [][NextEstimate]_vars

(***************************************************************************)
(* Accepting a file request, cancelling a transfer, and the recovery from  *)
(* a hash mismatch.                                                        *)
(***************************************************************************)
\* FileTransfersWindow._start_receive
start_receive(st, t, file_path) ==
    LET st1 == [st EXCEPT !.props[t].file_name = Some(file_path),
                          !.props[t].type_ = "r"]
        st2 == add_transfer(st1, t)
    IN IF st2.err # "none" THEN st2
       ELSE [st2 EXCEPT !.events = @ \o <<"add_transfer",
                                          "send_file_approval">>]

\* propose_resume as it would be if resuming were proposed for any file
propose_resume_always(dl_size, file_size) == TRUE

\* whether on_ok lets the overwrite dialog propose to resume: the file on
\* disk is shorter than the file offered
propose_resume(dl_size, file_size) == ~(dl_size >= file_size)

\* the overwrite dialog on_ok opens
dialog(dl_size, file_size) ==
    <<"FTOverwriteConfirmationDialog">>
    \o (IF propose_resume(dl_size, file_size) THEN <<"propose_resume">>
        ELSE <<>>)

\* a dialog that is open: the save dialog of on_file_request_accepted, the
\* overwrite dialog of on_ok with the path, the size found on disk and
\* whether it proposes to resume, or the question of show_hash_error; each
\* holds the record it was opened for
Dialog(kind, t, file_path, dl_size, resume) ==
    [kind |-> kind, t |-> t, file_path |-> file_path, dl_size |-> dl_size,
     propose_resume |-> resume]

\* on_ok as it would be if it did not check the existing file's permissions
on_ok_overwrites_unchecked(st, t, file_path, env) ==
    LET fp == st.props[t]
        exists == file_path \in DOMAIN st.disk
        dl_size == st.disk[file_path]
        failed == [st EXCEPT !.events = <<"ErrorDialog">>]
        asked == [st EXCEPT
                     !.events = dialog(dl_size, fp.size),
                     !.dialogs = @ (+) SetToBag(
                         {Dialog("FTOverwriteConfirmationDialog", t,
                                 file_path, dl_size,
                                 propose_resume(dl_size, fp.size))})]
    IN IF exists THEN asked
       ELSE IF ~env.dir_access /\ env.os_name # "nt" THEN failed
       ELSE start_receive(st, t, file_path)

\* on_file_request_accepted.on_ok: for a file that exists and can be
\* written it opens the overwrite dialog and returns
on_ok(st, t, file_path, env) ==
    LET fp == st.props[t]
        exists == file_path \in DOMAIN st.disk
        dl_size == st.disk[file_path]
        failed == [st EXCEPT !.events = <<"ErrorDialog">>]
        asked == [st EXCEPT
                     !.events = dialog(dl_size, fp.size),
                     !.dialogs = @ (+) SetToBag(
                         {Dialog("FTOverwriteConfirmationDialog", t,
                                 file_path, dl_size,
                                 propose_resume(dl_size, fp.size))})]
    IN IF exists
       THEN IF ~env.file_access THEN failed ELSE asked
       ELSE IF ~env.dir_access /\ env.os_name # "nt" THEN failed
       ELSE start_receive(st, t, file_path)

\* on_ok.on_response, the answer to the overwrite dialog d: with the
\* dl_size on_ok found when it opened the dialog
on_response(st, d, response) ==
    LET resumed == [st EXCEPT !.props[d.t].offset =
                       IF response = 100 THEN d.dl_size ELSE @]
    IN IF response < 0 THEN st
       ELSE start_receive(resumed, d.t, d.file_path)

\* on_cancel_button_clicked with the row of transfer t selected
on_cancel_button_clicked(st, t, connected_account) ==
    LET fp == st.props[t]
        closed == IF fp.direction # None THEN <<"send_close">> ELSE <<>>
    IN IF ~connected_account THEN st
       ELSE set_status([st EXCEPT !.events =
                           closed \o <<"disconnect_transfer">>], t, "stop")

\* on_yes as it would be if the new request did not carry the hash
on_yes_drops_hash(st, t, new) ==
    LET fp == st.props[t]
        path == fp.file_name[1]
        new_file_props == [NewFileProp(new) EXCEPT
                              !.file_name = fp.file_name,
                              !.name = fp.name,
                              !.desc = fp.desc,
                              !.size = fp.size,
                              !.date = fp.date,
                              !.type_ = "r"]
        st1 == [st EXCEPT !.disk = [p \in DOMAIN st.disk \ {path} |->
                                      st.disk[p]],
                          !.events = @ \o <<"os.remove">>]
        st2 == [st1 EXCEPT !.registry = @ \cup {new},
                           !.props[new] = new_file_props,
                           !.events = @ \o <<"getNewFileProp",
                                             "start_file_transfer">>]
        st3 == add_transfer(st2, new)
    IN IF fp.file_name = None THEN [st EXCEPT !.err = "TypeError"]
       ELSE IF path \notin DOMAIN st.disk
       THEN [st EXCEPT !.err = "FileNotFoundError"]
       ELSE IF st3.err # "none" THEN st3
       ELSE [st3 EXCEPT !.events = @ \o <<"add_transfer">>]

\* show_hash_error.on_yes, the new record being the one FilesProp creates
on_yes(st, t, new) ==
    LET fp == st.props[t]
        path == fp.file_name[1]
        new_file_props == [NewFileProp(new) EXCEPT
                              !.file_name = fp.file_name,
                              !.name = fp.name,
                              !.desc = fp.desc,
                              !.size = fp.size,
                              !.date = fp.date,
                              !.hash_ = fp.hash_,
                              !.type_ = "r"]
        st1 == [st EXCEPT !.disk = [p \in DOMAIN st.disk \ {path} |->
                                      st.disk[p]],
                          !.events = @ \o <<"os.remove">>]
        st2 == [st1 EXCEPT !.registry = @ \cup {new},
                           !.props[new] = new_file_props,
                           !.events = @ \o <<"getNewFileProp",
                                             "start_file_transfer">>]
        st3 == add_transfer(st2, new)
    IN IF fp.file_name = None THEN [st EXCEPT !.err = "TypeError"]
       ELSE IF path \notin DOMAIN st.disk
       THEN [st EXCEPT !.err = "FileNotFoundError"]
       ELSE IF st3.err # "none" THEN st3
       ELSE [st3 EXCEPT !.events = @ \o <<"add_transfer">>]

\* show_hash_error: it reads the name of the file and opens the question;
\* for a receive that has no file_name os.path.basename raises TypeError
show_hash_error(st, t) ==
    LET fp == st.props[t]
    IN IF fp.type_ = "r" /\ fp.file_name = None
       THEN [st EXCEPT !.err = "TypeError"]
       ELSE [st EXCEPT !.events = @ \o <<"YesNoDialog">>,
                       !.dialogs = @ (+) SetToBag(
                           {Dialog("YesNoDialog", t, "none", 0, FALSE)})]

\* the responses of the overwrite dialog: closed, resume, replace
Responses == {-1, 100, 200}

\* what on_ok can find at the chosen path: a file that can be written or
\* not, or no file (os.access of what does not exist is false), in a
\* directory that can be written or not, under either os.name
Envs(exists) ==
    [exists : {exists}, file_access : IF exists THEN BOOLEAN ELSE {FALSE},
     dir_access : BOOLEAN, os_name : {"posix", "nt"}, response : {0},
     has_pywin32 : {FALSE}]

\* on_file_request_accepted: it opens the save dialog with on_ok as the
\* callback of accept and send_file_rejection as that of cancel, and returns
on_file_request_accepted(st, t) ==
    [st EXCEPT !.events = <<"FileSaveDialog">>,
               !.dialogs = @ (+) SetToBag(
                   {Dialog("FileSaveDialog", t, "none", 0, FALSE)})]

\* the user accepts the file request of transfer t: the save dialog opens
AcceptRequest(t) ==
    /\ t \in registry
    /\ BagCardinality(dialogs) < MaxDialogs
    /\ FtCommit("on_file_request_accepted", t,
                on_file_request_accepted(FtState(files_props, model), t))
    /\ UNCHANGED now

\* the user chooses file_path in one save dialog that holds d, which closes
\* and calls on_ok
SaveAccept(d, file_path, env) ==
    /\ BagIn(d, dialogs)
    /\ d.kind = "FileSaveDialog"
    /\ Len(model) < MaxRows
    /\ env.exists = (file_path \in DOMAIN disk)
    /\ FtCommit("on_ok", d.t,
                [on_ok([FtState(files_props, model) EXCEPT
                           !.dialogs = @ (-) SetToBag({d})],
                       d.t, file_path, env)
                    EXCEPT !.env = env])
    /\ UNCHANGED now

\* the user cancels one save dialog that holds d, which closes and calls
\* send_file_rejection
SaveCancel(d) ==
    /\ BagIn(d, dialogs)
    /\ d.kind = "FileSaveDialog"
    /\ FtCommit("send_file_rejection", d.t,
                [FtState(files_props, model) EXCEPT
                    !.events = <<"send_file_rejection">>,
                    !.dialogs = @ (-) SetToBag({d})])
    /\ UNCHANGED now

\* the user answers one overwrite dialog that holds d, which closes; the
\* dialog has a resume button only when it proposes to resume
OverwriteResponse(d, response) ==
    /\ BagIn(d, dialogs)
    /\ d.kind = "FTOverwriteConfirmationDialog"
    /\ response = 100 => d.propose_resume
    /\ response >= 0 => Len(model) < MaxRows
    /\ FtCommit("on_response", d.t,
                [on_response([FtState(files_props, model) EXCEPT
                                 !.dialogs = @ (-) SetToBag({d})],
                            d, response)
                    EXCEPT !.env = [NoEnv EXCEPT !.exists = TRUE,
                                                 !.response = response]])
    /\ UNCHANGED now

\* the cancel button with the row of transfer t selected, the account of
\* the transfer having a connection or not
Cancel(t, connected_account) ==
    /\ t \in registry
    /\ get_iter_by_sid(model, files_props[t].type_, files_props[t].sid) # 0
    /\ FtCommit(IF connected_account THEN "cancel" ELSE "cancel_no_connection",
                t, on_cancel_button_clicked(FtState(files_props, model), t,
                                            connected_account))
    /\ UNCHANGED now

\* the hash of the received file was computed and differs from the expected
\* one: the row shows the error and the user is asked whether to download
\* the file again
HashError(t) ==
    /\ t \in registry
    /\ LET fp == files_props[t]
           iter_ == get_iter_by_sid(model, fp.type_, fp.sid)
       IN /\ iter_ # 0
          /\ model[iter_].image = "computing"
          /\ ~fp.completed
    /\ BagCardinality(dialogs) < MaxDialogs
    /\ FtCommit("show_hash_error", t,
                show_hash_error(
                    set_status(FtState(files_props, model), t, "hash_error"),
                    t))
    /\ UNCHANGED now

\* the user answers yes to one question that holds d, which closes: on_yes
\* runs, with the record the question was opened for; when the file is
\* there it takes a new record from FilesProp
HashErrorYes(d) ==
    /\ BagIn(d, dialogs)
    /\ d.kind = "YesNoDialog"
    /\ LET st == [FtState(files_props, model) EXCEPT
                     !.dialogs = @ (-) SetToBag({d})]
           fp == files_props[d.t]
       IN IF fp.file_name # None /\ fp.file_name[1] \in DOMAIN disk
          THEN /\ Len(model) < MaxRows
               /\ \E new \in Transfers \ registry :
                    FtCommit("hash_error_yes", d.t, on_yes(st, d.t, new))
          ELSE FtCommit("hash_error_yes", d.t, on_yes(st, d.t, d.t))
    /\ UNCHANGED now

\* the user answers no to one question that holds d, or closes it
HashErrorNo(d) ==
    /\ BagIn(d, dialogs)
    /\ d.kind = "YesNoDialog"
    /\ FtCommit("hash_error_no", d.t,
                [FtState(files_props, model) EXCEPT
                    !.dialogs = @ (-) SetToBag({d})])
    /\ UNCHANGED now

\* the file request the window is asked to accept: a receive over jingle
\* with the hash of the file, over in-band bytestreams or not, with a
\* callback of the transport that continues it or none
RequestProp(t, direction, continue_cb) ==
    [NewFileProp(t) EXCEPT !.direction = direction,
                           !.continue_cb = continue_cb]

\* the files the save path can hold before the request is accepted: none, a
\* part of the file, a file as long as the one offered
FilesBefore ==
    {NoFiles} \cup {[p \in Paths |-> n] : n \in {1, FileSize}}

InitRecover ==
    /\ content = [c \in Contents |-> NewContent(c)]
    /\ session_contents = [k \in {} |-> "c1"]
    /\ negotiated_calls = [c \in Contents |-> 0]
    /\ lastOp = NoOp
    /\ files_props = [t \in Transfers |-> NewFileProp(t)]
    /\ model = <<>>
    /\ now = 0
    /\ ftOp = NoFtOp
    /\ registry = Registered
    /\ disk \in FilesBefore
    /\ dialogs = EmptyBag

\* the request is accepted, any number of times, a path chosen or not and
\* the overwrite dialogs answered, the transport connects and moves the bytes
\* of the transfer, the timer of a row pulses, the hash is found wrong and
\* the questions about it answered
NextRecover ==
    \/ AcceptRequest("t1")
    \/ \E d \in BagToSet(dialogs), env \in Envs(TRUE) \cup Envs(FALSE) :
         SaveAccept(d, "p", env)
    \/ \E d \in BagToSet(dialogs) : SaveCancel(d)
    \/ \E d \in BagToSet(dialogs), response \in Responses :
         OverwriteResponse(d, response)
    \/ TransportState("t1", TRUE, TRUE, FALSE)
    \/ \E n \in 0..FileSize : Progress("t1", 1, n)
    \/ \E iter_ \in 1..MaxRows : Pulse(iter_)
    \/ HashError("t1")
    \/ \E d \in BagToSet(dialogs) : HashErrorYes(d)
    \/ \E d \in BagToSet(dialogs) : HashErrorNo(d)

SpecRecover == InitRecover /\ [][NextRecover]_vars

\* an accepted file request, over jingle or in-band bytestreams, with a
\* callback that continues it or none, not yet in the list
InitPause ==
    /\ content = [c \in Contents |-> NewContent(c)]
    /\ session_contents = [k \in {} |-> "c1"]
    /\ negotiated_calls = [c \in Contents |-> 0]
    /\ lastOp = NoOp
    /\ \E direction \in {None, Some(">")}, continue_cb \in BOOLEAN :
         files_props = [t \in Transfers |->
                          IF t = "t1"
                          THEN [RequestProp(t, direction, continue_cb)
                                   EXCEPT !.file_name = Some("p")]
                          ELSE NewFileProp(t)]
    /\ model = <<>>
    /\ now = 0
    /\ ftOp = NoFtOp
    /\ registry = Registered
    /\ disk = NoFiles
    /\ dialogs = EmptyBag

\* the transfer is added to the list, the transport moves its bytes, the
\* timer of a row pulses, the hash is verified, and the user pauses,
\* continues and cancels the transfer
NextPause ==
    \/ AddTransfer("t1")
    \/ \E a \in BOOLEAN : TransportState("t1", TRUE, a, FALSE)
    \/ \E n \in 0..FileSize : Progress("t1", 1, n)
    \/ \E iter_ \in 1..MaxRows : Pulse(iter_)
    \/ HashVerified("t1")
    \/ PauseRestore("t1", 1)
    \/ \E c \in BOOLEAN : Cancel("t1", c)

SpecPause == InitPause /\ [][NextPause]_vars

(***************************************************************************)
(* Sending files, and removing transfers from the list.                    *)
(***************************************************************************)
\* gtkgui_helpers.file_is_locked: it looks at the file only where os.name is
\* nt and pywin32 is there, and says None anywhere else
file_is_locked(file, env) ==
    IF env.os_name # "nt" THEN FALSE
    ELSE IF ~env.has_pywin32 THEN FALSE
    ELSE file.locked

\* get_send_file_props as it would be if it took an empty file
get_send_file_props_takes_empty(st, new, file) ==
    LET file_props == [NewFileProp(new) EXCEPT
                          !.file_name = Some("p"),
                          !.type_ = "s",
                          !.elapsed_time = 0,
                          !.size = file.size]
    IN IF ~file.isfile THEN [st EXCEPT !.events = @ \o <<"ErrorDialog">>]
       ELSE [st EXCEPT !.registry = @ \cup {new},
                       !.props[new] = file_props,
                       !.events = @ \o <<"getNewFileProp">>]

\* FileTransfersWindow.get_send_file_props: the record of the send, or none
\* and an error for what is no regular file or is empty
get_send_file_props(st, new, file) ==
    LET file_props == [NewFileProp(new) EXCEPT
                          !.file_name = Some("p"),
                          !.type_ = "s",
                          !.elapsed_time = 0,
                          !.size = file.size]
    IN IF ~file.isfile THEN [st EXCEPT !.events = @ \o <<"ErrorDialog">>]
       ELSE IF file.size = 0
       THEN [st EXCEPT !.events = @ \o <<"ErrorDialog">>]
       ELSE [st EXCEPT !.registry = @ \cup {new},
                       !.props[new] = file_props,
                       !.events = @ \o <<"getNewFileProp">>]

\* FileTransfersWindow.send_file, the contact being a contact
send_file(st, new, file, env) ==
    LET st1 == get_send_file_props(st, new, file)
        st2 == add_transfer([st1 EXCEPT !.events =
                                @ \o <<"start_file_transfer">>], new)
    IN IF file_is_locked(file, env)
       THEN [st EXCEPT !.events = <<"ErrorDialog">>]
       ELSE IF new \notin st1.registry THEN st1
       ELSE IF st2.err # "none" THEN st2
       ELSE [st2 EXCEPT !.events = @ \o <<"add_transfer">>]

\* bytestream.is_transfer_stopped: the transfer ended, stopped, completed or
\* in error
is_transfer_stopped(fp) == fp.error \/ fp.completed \/ fp.stopped

\* the record FilesProp.getFilePropByType finds for the sid of a row, or none
getFilePropByType(st, sid) ==
    LET found == {t \in st.registry :
                     <<st.props[t].type_, st.props[t].sid>> = sid}
    IN IF found = {} THEN "none" ELSE CHOOSE t \in found : TRUE

\* _remove_transfer as it would be if the record stayed in FilesProp
remove_transfer_keeps_record(st, iter_, t) ==
    LET rows == [i \in 1..(Len(st.rows) - 1) |->
                    IF i < iter_ THEN st.rows[i] ELSE st.rows[i + 1]]
    IN [st EXCEPT !.rows = rows, !.events = @ \o <<"model.remove">>]

\* FileTransfersWindow._remove_transfer: the row goes, and the record, when
\* there is one, leaves FilesProp
remove_transfer(st, iter_, t) ==
    LET rows == [i \in 1..(Len(st.rows) - 1) |->
                    IF i < iter_ THEN st.rows[i] ELSE st.rows[i + 1]]
        st1 == [st EXCEPT !.rows = rows,
                          !.events = @ \o <<"model.remove">>]
    IN IF t = "none" THEN st1
       ELSE [st1 EXCEPT !.registry = @ \ {t},
                        !.props[t] = NewFileProp(t),
                        !.events = @ \o <<"deleteFileProp">>]

\* the loop of on_cleanup_button_clicked, from row i up to the first row; a
\* row whose record FilesProp no longer holds counts as stopped, and at a
\* row without sid the subscript sid[0] raises TypeError and the loop ends
RECURSIVE cleanup_rows(_, _)
cleanup_rows(st, i) ==
    IF i = 0 THEN st
    ELSE IF st.rows[i].sid = None THEN [st EXCEPT !.err = "TypeError"]
    ELSE LET t == getFilePropByType(st, st.rows[i].sid)
             stopped == t = "none" \/ is_transfer_stopped(st.props[t])
         IN cleanup_rows(IF stopped THEN remove_transfer(st, i, t) ELSE st,
                         i - 1)

\* FileTransfersWindow.on_cleanup_button_clicked
on_cleanup_button_clicked(st) == cleanup_rows(st, Len(st.rows))

\* FileTransfersWindow.on_remove_menuitem_activate with row iter_ selected;
\* at a row without sid the subscript sid[0] raises TypeError
on_remove_menuitem_activate(st, iter_) ==
    IF st.rows[iter_].sid = None THEN [st EXCEPT !.err = "TypeError"]
    ELSE remove_transfer(st, iter_,
                         getFilePropByType(st, st.rows[iter_].sid))

\* the record FilesProp creates next: the first it does not hold
NextRecord(reg) ==
    CHOOSE t \in Transfers \ reg :
        \A u \in Transfers \ reg : (u = t) \/ (t = "t1") \/ (t = "t2" /\ u = "t3")

\* the files a send can be asked for, and where
SendFiles == [locked : BOOLEAN, isfile : BOOLEAN, size : {0, FileSize}]

\* pywin32 is a package for nt only
SendEnvs ==
    {env \in [exists : {FALSE}, file_access : {TRUE}, dir_access : {TRUE},
              os_name : {"posix", "nt"}, response : {0},
              has_pywin32 : BOOLEAN] :
        env.has_pywin32 => env.os_name = "nt"}

\* the user sends a file to a contact
SendFile(file, env) ==
    /\ registry # Transfers
    /\ FtCommit("send_file", NextRecord(registry),
                [send_file(FtState(files_props, model), NextRecord(registry),
                           file, env)
                    EXCEPT !.env = env, !.file = file])
    /\ UNCHANGED now

\* the transport of transfer t fails: the record is in error
TransportError(t) ==
    /\ t \in registry
    /\ ~files_props[t].error
    /\ files_props' = [files_props EXCEPT ![t].error = TRUE]
    /\ ftOp' = [NoFtOp EXCEPT !.op = "transport_error", !.t = t]
    /\ UNCHANGED <<model, now, registry, disk, dialogs>>
    /\ UNCHANGED cvars

\* the cleanup button
Cleanup ==
    /\ model # <<>>
    /\ FtCommit("cleanup", "t1",
                on_cleanup_button_clicked(FtState(files_props, model)))
    /\ UNCHANGED now

\* the record whose row is row iter_ of the list, "t1" standing for none
RecordOfRow(iter_) ==
    LET t == IF model[iter_].sid = None THEN "none"
             ELSE getFilePropByType(FtState(files_props, model),
                                    model[iter_].sid)
    IN IF t = "none" THEN "t1" ELSE t

\* the remove menu item with row iter_ selected
Remove(iter_) ==
    /\ iter_ \in DOMAIN model
    /\ FtCommit("remove", RecordOfRow(iter_),
                on_remove_menuitem_activate(FtState(files_props, model),
                                            iter_))
    /\ UNCHANGED now

\* a file request that was received and has no path yet
FileRequests == {{}, {"t1"}}

\* a window without transfers, FilesProp holding a file request or nothing
InitList ==
    /\ content = [c \in Contents |-> NewContent(c)]
    /\ session_contents = [k \in {} |-> "c1"]
    /\ negotiated_calls = [c \in Contents |-> 0]
    /\ lastOp = NoOp
    /\ files_props = [t \in Transfers |-> NewFileProp(t)]
    /\ model = <<>>
    /\ now = 0
    /\ ftOp = NoFtOp
    /\ registry \in FileRequests
    /\ disk = NoFiles
    /\ dialogs = EmptyBag

\* files are sent, the file request is added to the list as it is, the
\* transports finish (within one tick of the clock) or fail, the user
\* cancels, removes and cleans up
NextList ==
    \/ \E file \in SendFiles, env \in SendEnvs : SendFile(file, env)
    \/ \E t \in Transfers : t \in registry /\ Progress(t, 0, FileSize)
    \/ \E t \in Transfers : TransportError(t)
    \/ "t1" \in registry /\ files_props["t1"].type_ = "r" /\ AddTransfer("t1")
    \/ \E t \in Transfers : Cancel(t, TRUE)
    \/ Cleanup
    \/ \E iter_ \in DOMAIN model : Remove(iter_)

SpecList == InitList /\ [][NextList]_vars

(***************************************************************************)
(* Adding one transfer of any size to the list.                            *)
(***************************************************************************)
\* the sizes and resume offsets of a record: an empty file, a file, a file
\* resumed after its first byte
SizesAndOffsets ==
    {so \in [size : {0, FileSize}, offset : {0, 1}] : so.offset < so.size}
        \cup {[size |-> 0, offset |-> 0]}

\* one record, a receive or a send, of any size, not yet in the list
InitAdd ==
    /\ content = [c \in Contents |-> NewContent(c)]
    /\ session_contents = [k \in {} |-> "c1"]
    /\ negotiated_calls = [c \in Contents |-> 0]
    /\ lastOp = NoOp
    /\ \E k \in TransferKinds, so \in SizesAndOffsets :
         files_props = [t \in Transfers |->
                           IF t = "t1"
                           THEN [FilePropOf(t, k) EXCEPT
                                    !.size = so.size, !.offset = so.offset]
                           ELSE NewFileProp(t)]
    /\ model = <<>>
    /\ now = 0
    /\ ftOp = NoFtOp
    /\ registry = Registered
    /\ disk = NoFiles
    /\ dialogs = EmptyBag

\* the record is added to the list once, its transport changes state and
\* reports the bytes it moved, the timeouts of its row fire
NextAdd ==
    \/ model = <<>> /\ AddTransfer("t1")
    \/ \E a \in BOOLEAN, b \in BOOLEAN, c \in BOOLEAN :
         TransportState("t1", a, b, c)
    \/ \E n \in 0..FileSize :
         n <= files_props["t1"].size /\ Progress("t1", 1, n)
    \/ Pulse(1)

SpecAdd == InitAdd /\ [][NextAdd]_vars

(***************************************************************************)
(* The claims about the contents.                                          *)
(***************************************************************************)
\* whether the step's operation ran handler h of content c
RanIn(c, h) ==
    /\ lastOp'.op = "on_stanza"
    /\ lastOp'.c = c
    /\ h \in Range(lastOp'.ran)

\* how often handler h is listed in hs
Listed(hs, h) == Cardinality({i \in DOMAIN hs : hs[i] = h})

\* C1: after any sequence of dispatches, on_negotiated calls and local
\* acceptances, a negotiated content is an accepted one.
C1_NegotiatedImpliesAccepted ==
    \A c \in Contents : content[c].negotiated => content[c].accepted

\* a dispatch has made a content negotiated
C1_Witness ==
    /\ lastOp.op = "on_stanza"
    /\ lastOp.c \in Contents
    /\ "on_content_accept" \in Range(lastOp.ran)
    /\ content[lastOp.c].negotiated

\* C2: sent starts false, every run of the fill-stanza handler leaves it
\* true, and no other operation changes it.
C2_SentOnlyByFill ==
    [][\A c \in Contents :
          IF RanIn(c, "fill_jingle_stanza")
          THEN content'[c].sent
          ELSE content'[c].sent = content[c].sent]_vars

\* a dispatch has run the fill-stanza handler and the content is sent
C2_Witness ==
    /\ lastOp.op = "on_stanza"
    /\ "fill_jingle_stanza" \in Range(lastOp.ran)
    /\ content[lastOp.c].sent

\* C3 as stated: the session is notified at most once per content.
C3_NotifiedAtMostOnce ==
    \A c \in Contents : negotiated_calls[c] <= 1

\* C3 as amended: a run of the accept handler (or of on_negotiated) sets
\* negotiated and notifies the session once exactly when accepted is true,
\* also when the content is negotiated already; with accepted false it
\* changes nothing and notifies nobody; nothing else notifies the session.
C3_NotifiedPerAcceptedRun ==
    [][\A c \in Contents :
          IF /\ \/ RanIn(c, "on_content_accept")
                \/ lastOp'.op = "on_negotiated" /\ lastOp'.c = c
             /\ content[c].accepted
          THEN /\ content'[c].negotiated
               /\ negotiated_calls'[c] = negotiated_calls[c] + 1
          ELSE /\ content'[c].negotiated = content[c].negotiated
               /\ negotiated_calls'[c] = negotiated_calls[c]]_vars

\* the accept handler has run again on a negotiated content and the session
\* was notified a second time
C3_Witness ==
    /\ lastOp.op = "on_stanza"
    /\ lastOp.again
    /\ "on_content_accept" \in Range(lastOp.ran)
    /\ negotiated_calls[lastOp.c] = 2

\* C4: an inbound action delivered to a negotiated content leaves negotiated
\* true and accepted and sent as they were, and notifies the session no more
\* often than the accept handler is listed for the action.
C4_RedeliveryKeepsFlags ==
    [][/\ lastOp'.op = "on_stanza"
       /\ lastOp'.err = "none"
       /\ lastOp'.action \in InboundActions
       /\ content[lastOp'.c].negotiated
       => LET c == lastOp'.c
          IN /\ content'[c].negotiated
             /\ content'[c].accepted = content[c].accepted
             /\ content'[c].sent = content[c].sent
             /\ negotiated_calls'[c] - negotiated_calls[c]
                    <= Listed(callbacks_table[lastOp'.action],
                              "on_content_accept")
             /\ Listed(callbacks_table[lastOp'.action],
                       "on_content_accept") <= 1]_vars

\* session-accept with new candidates was delivered twice in a row to a
\* negotiated content
C4_Witness ==
    /\ lastOp.op = "on_stanza"
    /\ lastOp.again
    /\ lastOp.action = "session-accept"
    /\ content[lastOp.c].negotiated
    /\ content[lastOp.c].remote_candidates # <<>>
    /\ negotiated_calls[lastOp.c] = 2

\* C5: on_stanza runs the handlers listed for the action, all of them and in
\* the listed order: at the accept handler's notification the candidates of
\* the stanza are merged (inbound accepts) and sent is true (-sent accepts).
C5_HandlersInOrder ==
    /\ lastOp.op = "on_stanza"
    /\ lastOp.err = "none"
    /\ lastOp.action \in Vocabulary
    => /\ lastOp.ran = callbacks_table[lastOp.action]
       /\ \A i \in DOMAIN lastOp.notes :
            /\ lastOp.action \in {"content-accept", "session-accept"}
               => lastOp.notes[i].remote
                      = content[lastOp.c].remote_candidates
            /\ lastOp.action \in {"content-accept-sent",
                                  "session-accept-sent"}
               => lastOp.notes[i].sent

\* content-accept-sent has run the fill-stanza handler and then the accept
\* handler, which notified the session
C5_Witness ==
    /\ lastOp.op = "on_stanza"
    /\ lastOp.action = "content-accept-sent"
    /\ lastOp.ran = <<"fill_jingle_stanza", "on_content_accept">>
    /\ Len(lastOp.notes) = 1

\* C6: an action name outside the vocabulary, dispatched to a content that is
\* not destroyed, runs no handler, raises nothing and changes nothing; the
\* action names of a content's table stay those of the vocabulary.
C6_UnknownActionNoOp ==
    /\ [](\A c \in Contents :
             content[c].callbacks # None
             => DOMAIN content[c].callbacks[1] = Vocabulary)
    /\ [][/\ lastOp'.op = "on_stanza"
          /\ lastOp'.action \notin Vocabulary
          /\ content[lastOp'.c].callbacks # None
          => /\ lastOp'.ran = <<>>
             /\ lastOp'.err = "none"
             /\ lastOp'.notes = <<>>
             /\ content' = content
             /\ negotiated_calls' = negotiated_calls
             /\ session_contents' = session_contents]_vars

\* an unknown action was dispatched to an accepted content with candidates
C6_Witness ==
    /\ lastOp.op = "on_stanza"
    /\ lastOp.action \in UnknownActions
    /\ lastOp.err = "none"
    /\ content[lastOp.c].accepted
    /\ content[lastOp.c].remote_candidates # <<>>

\* C7: the session's map holds no destroyed content, so that an action for a
\* destroyed content, like one for an unknown content, is dropped: no
\* handler runs, nothing is raised, nothing changes.
C7_StaleActionDropped ==
    /\ [](\A k \in DOMAIN session_contents :
             content[session_contents[k]].callbacks # None)
    /\ [](\A c \in Contents :
             content[c].callbacks = None
             => content[c].key \notin DOMAIN session_contents)
    /\ [][lastOp'.op = "dropped"
          => /\ lastOp'.key \notin DOMAIN session_contents
             /\ lastOp'.ran = <<>>
             /\ lastOp'.err = "none"
             /\ content' = content
             /\ negotiated_calls' = negotiated_calls
             /\ session_contents' = session_contents]_vars

\* an accept arrived for the key of a content that was destroyed
C7_Witness ==
    /\ lastOp.op = "dropped"
    /\ lastOp.action = "session-accept"
    /\ \E c \in Contents :
         /\ content[c].callbacks = None
         /\ content[c].key = lastOp.key

\* C8: destroy removes the content's own key from the session's map and
\* leaves the other entries as they were; a destroyed content stays
\* destroyed and on_stanza runs no handler of it.
C8_DestroyRemovesOwnKey ==
    /\ [][lastOp'.op = "destroy"
          => LET k == content[lastOp'.c].key
             IN /\ DOMAIN session_contents' = DOMAIN session_contents \ {k}
                /\ k \notin DOMAIN session_contents'
                /\ \A x \in DOMAIN session_contents' :
                     session_contents'[x] = session_contents[x]
                /\ content'[lastOp'.c].callbacks = None]_vars
    /\ [][\A c \in Contents :
             (/\ content[c].callbacks = None
              /\ lastOp'.op = "on_stanza"
              /\ lastOp'.c = c)
             => /\ lastOp'.ran = <<>>
                /\ content'[c] = content[c]
                /\ negotiated_calls'[c] = negotiated_calls[c]]_vars
    /\ [][\A c \in Contents :
             content[c].callbacks = None => content'[c].callbacks = None]_vars

\* one content was destroyed while the session still holds the other
C8_Witness ==
    /\ lastOp.op = "destroy"
    /\ content[lastOp.c].callbacks = None
    /\ \E c \in Contents \ {lastOp.c} :
         /\ content[c].key \in DOMAIN session_contents
         /\ session_contents[content[c].key] = c

\* C9: is_ready returns true exactly when accepted is true and sent false.
C9_IsReady ==
    lastOp.op = "is_ready"
    => (lastOp.result <=> (content[lastOp.c].accepted
                           /\ ~content[lastOp.c].sent))

\* is_ready was asked of a content that was accepted and then sent
C9_Witness ==
    /\ lastOp.op = "is_ready"
    /\ content[lastOp.c].accepted
    /\ content[lastOp.c].sent
    /\ ~lastOp.result

(***************************************************************************)
(* The claims about the transfers.                                         *)
(***************************************************************************)
\* C10: the status a progress update derives is stop when connected is
\* false, whatever paused and stalled are; otherwise pause when paused is
\* true; otherwise waiting when stalled is true; otherwise download for a
\* receive and upload for a send.
C10_StatusPriority ==
    ftOp.op = "set_progress" /\ ftOp.status # "none"
    => LET fp == files_props[ftOp.t]
       IN ftOp.status = CASE ~fp.connected -> "stop"
                          [] fp.paused -> "pause"
                          [] fp.stalled -> "waiting"
                          [] fp.type_ = "r" -> "download"
                          [] OTHER -> "upload"

\* a progress update of a paused transfer that lost its connection has
\* derived stop
C10_Witness ==
    /\ ftOp.op = "set_progress"
    /\ ftOp.status = "stop"
    /\ files_props[ftOp.t].paused
    /\ files_props[ftOp.t].stalled
    /\ ~files_props[ftOp.t].connected

\* whether a hash is expected for the file of fp: the peer announced one
\* for a file received in a jingle session
HashExpected(fp) ==
    fp.type_ = "r" /\ fp.session_type = "jingle" /\ fp.hash_ # None

\* the row of transfer t in the list rows, 0 when it has none
RowOf(rows, props, t) == get_iter_by_sid(rows, props[t].type_, props[t].sid)

\* C11: a progress update that reaches transferred == size shows a received
\* file whose hash is expected as being verified ('computing') and leaves
\* completed as it was; it marks every other transfer completed; completed
\* of a transfer whose hash is expected is set only by the verification.
C11_VerifyBeforeComplete ==
    [][\A t \in Transfers :
          LET fp == files_props'[t]
              iter_ == RowOf(model', files_props', t)
          IN /\ /\ ftOp'.op = "set_progress"
                /\ ftOp'.t = t
                /\ ftOp'.err = "none"
                /\ iter_ # 0
                /\ fp.received_len = fp.size
                => IF HashExpected(fp)
                   THEN /\ model'[iter_].image = "computing"
                        /\ fp.completed = files_props[t].completed
                   ELSE /\ model'[iter_].image = "ok"
                        /\ fp.completed
             /\ /\ HashExpected(fp)
                /\ fp.completed
                /\ ~files_props[t].completed
                => ftOp'.op = "hash_verified"]_vars

\* the last bytes of a file whose hash is expected have arrived: the row
\* shows the verification and the transfer is not completed
C11_Witness ==
    /\ ftOp.op = "set_progress"
    /\ HashExpected(files_props[ftOp.t])
    /\ files_props[ftOp.t].received_len = files_props[ftOp.t].size
    /\ RowOf(model, files_props, ftOp.t) # 0
    /\ model[RowOf(model, files_props, ftOp.t)].image = "computing"
    /\ ~files_props[ftOp.t].completed

\* the last k elements of s
LastN(k, s) == IF Len(s) > k THEN SubSeq(s, Len(s) - k + 1, Len(s)) ELSE s

\* the bytes set_progress takes as transferred: those since the offset
TransferredOf(fp, n) == IF fp.offset # 0 THEN n - fp.offset ELSE n

\* C12: a transfer never holds more than 6 samples, and a progress update
\* that records a sample leaves the 6 most recent ones of the samples held
\* before followed by the new one, in arrival order.
C12_SixMostRecentSamples ==
    /\ \A t \in Transfers : Len(files_props[t].transfered_size) <= 6
    /\ /\ ftOp.op = "set_progress"
       /\ RowOf(model, files_props, ftOp.t) # 0
       /\ files_props[ftOp.t].elapsed_time > 0
       => LET fp == files_props[ftOp.t]
          IN fp.transfered_size =
                 LastN(6, Append(ftOp.had,
                                 <<fp.last_time,
                                   TransferredOf(fp, fp.received_len)>>))

\* a seventh sample was recorded: the oldest one is gone
C12_Witness ==
    /\ ftOp.op = "set_progress"
    /\ Len(ftOp.had) = 6
    /\ ftOp.had[1] # ftOp.had[2]
    /\ Len(files_props[ftOp.t].transfered_size) = 6
    /\ files_props[ftOp.t].transfered_size[1] = ftOp.had[2]
    /\ files_props[ftOp.t].transfered_size[6] # ftOp.had[6]

\* whether integer v is a nearest integer to the quotient a / b, b > 0
Nearest(v, a, b) == 2 * a - b <= 2 * v * b /\ 2 * v * b <= 2 * a + b

\* C13: with two or more retained samples the reported speed is the rounded
\* quotient of the bytes and the time between the first and the last retained
\* sample (0 when the speed rounds to 0 or the window spans no time), not the
\* rate of the last interval.
C13_SpeedOverWindow ==
    /\ ftOp.op = "set_progress"
    /\ ftOp.err = "none"
    /\ RowOf(model, files_props, ftOp.t) # 0
    /\ Len(files_props[ftOp.t].transfered_size) >= 2
    => LET samples == files_props[ftOp.t].transfered_size
           first == samples[1]
           last == samples[Len(samples)]
       IN IF last[1] = first[1] THEN ftOp.speed = 0
          ELSE Nearest(ftOp.speed, last[2] - first[2], last[1] - first[1])

\* the samples (0, 0), (1, 100), (2, 300) are retained and the speed is 150,
\* where the last interval's rate is 200
C13_Witness ==
    /\ ftOp.op = "set_progress"
    /\ files_props[ftOp.t].transfered_size
           = <<<<0, 0>>, <<1, 100>>, <<2, 300>>>>
    /\ ftOp.speed = 150

\* C14 as stated: with fewer than two retained samples the reported speed is
\* the quotient of the transferred bytes and the elapsed time.
C14_SpeedFromElapsed ==
    /\ ftOp.op = "set_progress"
    /\ ftOp.err = "none"
    /\ RowOf(model, files_props, ftOp.t) # 0
    /\ Len(files_props[ftOp.t].transfered_size) < 2
    => LET fp == files_props[ftOp.t]
       IN Nearest(ftOp.speed, TransferredOf(fp, fp.received_len),
                  fp.elapsed_time)

\* C14 as amended: with exactly one retained sample the speed is the rounded
\* quotient of the bytes transferred since the offset and elapsed_time, and
\* the division raises when elapsed_time is 0; with no retained sample the
\* reported speed and eta are 0, whatever was transferred.
C14_SpeedFromElapsedOrZero ==
    /\ ftOp.op = "set_progress"
    /\ RowOf(model, files_props, ftOp.t) # 0
    /\ Len(files_props[ftOp.t].transfered_size) < 2
    => LET fp == files_props[ftOp.t]
       IN IF fp.transfered_size = <<>>
          THEN /\ ftOp.err = "none"
               /\ ftOp.speed = 0
               /\ ftOp.eta = <<0, 1>>
          ELSE IF fp.elapsed_time = 0
          THEN ftOp.err = "ZeroDivisionError"
          ELSE /\ ftOp.err = "none"
               /\ Nearest(ftOp.speed, TransferredOf(fp, fp.received_len),
                          fp.elapsed_time)

\* one sample is retained after two ticks: the speed is half the bytes
C14_Witness ==
    /\ ftOp.op = "set_progress"
    /\ Len(files_props[ftOp.t].transfered_size) = 1
    /\ files_props[ftOp.t].elapsed_time = 2
    /\ files_props[ftOp.t].received_len = 300
    /\ files_props[ftOp.t].offset = 0
    /\ ftOp.speed = 150

\* C15 as stated: the estimate never divides by zero, a speed of zero is
\* reported with an eta of zero, and no transfer has exactly one retained
\* sample together with an elapsed_time of 0.
C15_NeverDividesByZero ==
    /\ ftOp.err # "ZeroDivisionError"
    /\ ftOp.speed = 0 => ftOp.eta = <<0, 1>>
    /\ \A t \in Transfers :
         ~ /\ Len(files_props[t].transfered_size) = 1
           /\ files_props[t].elapsed_time = 0

\* C16: a reported speed above 0 comes with the eta (size - transferred) /
\* speed, also for a transfer that started from an offset; the eta is 0 at
\* transferred == size and never negative.
C16_EtaFromRemaining ==
    /\ ftOp.op = "set_progress"
    /\ ftOp.err = "none"
    /\ RowOf(model, files_props, ftOp.t) # 0
    => LET fp == files_props[ftOp.t]
       IN /\ ftOp.speed >= 0
          /\ ftOp.speed > 0
             => ftOp.eta = <<fp.size - fp.received_len, ftOp.speed>>
          /\ fp.received_len = fp.size => ftOp.eta[1] = 0
          /\ ftOp.eta[1] >= 0
          /\ ftOp.eta[2] > 0

\* a transfer that started from an offset has bytes left: the eta is the
\* bytes left by the speed
C16_Witness ==
    /\ ftOp.op = "set_progress"
    /\ files_props[ftOp.t].offset # 0
    /\ files_props[ftOp.t].received_len < files_props[ftOp.t].size
    /\ ftOp.speed > 0
    /\ ftOp.eta = <<files_props[ftOp.t].size
                       - files_props[ftOp.t].received_len, ftOp.speed>>

\* C17: right after the pause of an active transfer, paused is true and no
\* sample is retained.
C17_PauseDiscardsSamples ==
    ftOp.op = "pause"
    => /\ files_props[ftOp.t].paused
       /\ files_props[ftOp.t].transfered_size = <<>>

\* a transfer that held samples was paused
C17_Witness ==
    /\ ftOp.op = "pause"
    /\ Len(ftOp.had) >= 2
    /\ files_props[ftOp.t].paused
    /\ files_props[ftOp.t].transfered_size = <<>>

\* C18 as stated: the first progress update after a resume retains no sample
\* but its own, whatever callbacks arrived while the transfer was paused, so
\* that its speed is that of the single-sample case.
C18_FirstSpeedAfterResume ==
    [][/\ ftOp.op = "continue"
       /\ ftOp'.op = "set_progress"
       /\ ftOp'.t = ftOp.t
       /\ RowOf(model', files_props', ftOp.t) # 0
       => LET fp == files_props'[ftOp.t]
          IN /\ Len(fp.transfered_size) <= 1
             /\ Len(fp.transfered_size) = 1
                => fp.transfered_size[1]
                       = <<fp.last_time,
                           TransferredOf(fp, fp.received_len)>>]_vars

(***************************************************************************)
(* The claims about the filling of the content.                            *)
(***************************************************************************)
\* whether the step's operation filled the payload of content c
Filled(c) ==
    \/ RanIn(c, "fill_jingle_stanza")
    \/ lastOp'.op = "send_description_info" /\ lastOp'.c = c

\* C19: the fill-stanza handler of a content that sends a file computes a
\* hash exactly when no hash is set and the size is below 10,000,000 bytes,
\* and attaches the digest it has obtained; with a hash set it computes
\* none, whatever the size, and leaves the hash as it is.
C19_HashBelowLimit ==
    [][\A c \in Contents :
          RanIn(c, "fill_jingle_stanza") /\ content[c].file_props.type_ = "s"
          => LET fp == content[c].file_props
                 fp2 == content'[c].file_props
             IN /\ lastOp'.computes
                       = IF fp.hash_ = None /\ fp.size < 10000000
                         THEN 1 ELSE 0
                /\ lastOp'.hash # None
                   <=> lastOp'.computes = 1 /\ fp2.hash_ # None
                /\ lastOp'.hash # None
                   => lastOp'.hash[1] = [algo |-> fp.algo,
                                         payload |-> fp2.hash_[1]]
                /\ fp.hash_ # None => fp2.hash_ = fp.hash_]_vars

\* the handler has filled the payload of a file of 8,000,000 bytes to send:
\* it computed the hash and attached it
C19_Witness ==
    /\ lastOp.op = "on_stanza"
    /\ "fill_jingle_stanza" \in Range(lastOp.ran)
    /\ content[lastOp.c].file_props.type_ = "s"
    /\ content[lastOp.c].file_props.size = 8000000
    /\ lastOp.computes = 1
    /\ lastOp.hash # None
    /\ "hash" \in Range(lastOp.file)

\* C20: filling the payload of a content that receives a file attaches the
\* hash element, with its algorithm and the known digest, exactly when a hash
\* is known, and computes no hash.
C20_ReceiveAttachesKnownHash ==
    [][\A c \in Contents :
          Filled(c) /\ content[c].file_props.type_ = "r"
          => LET fp == content[c].file_props
             IN /\ lastOp'.computes = 0
                /\ content'[c].file_props.hash_ = fp.hash_
                /\ "hash" \in Range(lastOp'.file) <=> fp.hash_ # None
                /\ lastOp'.hash
                       = IF fp.hash_ # None
                         THEN Some([algo |-> fp.algo, payload |-> fp.hash_[1]])
                         ELSE None]_vars

\* the payload of a small received file without a hash was filled: no hash
\* was computed and none is attached
C20_Witness ==
    /\ lastOp.op = "on_stanza"
    /\ "fill_jingle_stanza" \in Range(lastOp.ran)
    /\ content[lastOp.c].file_props.type_ = "r"
    /\ content[lastOp.c].file_props.size = 8000000
    /\ content[lastOp.c].file_props.hash_ = None
    /\ lastOp.computes = 0
    /\ lastOp.hash = None

\* C21 as stated: the payload the fill-stanza handler builds holds the
\* description, then the security element when use_security is true and a
\* certificate is loaded, then the transport.
C21_DescriptionSecurityTransport ==
    /\ lastOp.op = "on_stanza"
    /\ "fill_jingle_stanza" \in Range(lastOp.ran)
    => \/ lastOp.node = <<"description", "transport">>
       \/ /\ content[lastOp.c].use_security
          /\ lastOp.node = <<"description", "security", "transport">>

\* whether event a comes before event b in es
Before(es, a, b) ==
    \E i \in DOMAIN es, j \in DOMAIN es : es[i] = a /\ es[j] = b /\ i < j

\* the rows of transfer t
RowsOf(rows, props, t) ==
    {i \in DOMAIN rows : rows[i].sid = <<props[t].type_, props[t].sid>>}

\* what C22 says of a step that answers yes to the question of the hash
\* error: one new record, a receive at offset 0 whose sid no record had,
\* with the name, size, date, hash and description of the original; one new
\* row, that of the new record; and the file deleted before the file is
\* requested again and before the row is added
RecoveryCreatesOneRecord ==
    LET old == files_props[ftOp'.t]
    IN /\ \E new \in Transfers \ registry :
            /\ registry' = registry \cup {new}
            /\ files_props'[new].type_ = "r"
            /\ files_props'[new].offset = 0
            /\ \A u \in registry :
                 files_props'[new].sid # files_props[u].sid
            /\ files_props'[new].name = old.name
            /\ files_props'[new].size = old.size
            /\ files_props'[new].date = old.date
            /\ files_props'[new].hash_ = old.hash_
            /\ files_props'[new].desc = old.desc
            /\ Len(model') = Len(model) + 1
            /\ model'[1].sid = <<"r", files_props'[new].sid>>
       /\ old.file_name[1] \in DOMAIN disk
       /\ old.file_name[1] \notin DOMAIN disk'
       /\ Before(ftOp'.events, "os.remove", "start_file_transfer")
       /\ Before(ftOp'.events, "os.remove", "add_transfer")

\* C22 as stated: the recovery from a hash mismatch creates one new record, a
\* receive at offset 0 whose sid no record had, with the name, size, date,
\* hash and description of the original; it adds one row, that of the new
\* record, and it deletes the file before it requests it again and before it
\* adds the row.
C22_RecoveryAlwaysCreatesOneRecord ==
    [][ftOp'.op = "hash_error_yes" => RecoveryCreatesOneRecord]_vars

\* C22 as amended: where the damaged file is at its path the recovery does
\* what C22 says and raises nothing; where it is not, another answer having
\* removed it, os.remove raises FileNotFoundError and the recovery creates
\* no record, adds no row and requests nothing.
C22_RecoveryCreatesOneRecord ==
    [][ftOp'.op = "hash_error_yes"
       => LET old == files_props[ftOp'.t]
          IN IF old.file_name[1] \in DOMAIN disk
             THEN ftOp'.err = "none" /\ RecoveryCreatesOneRecord
             ELSE /\ ftOp'.err = "FileNotFoundError"
                  /\ registry' = registry
                  /\ files_props' = files_props
                  /\ model' = model
                  /\ disk' = disk
                  /\ ftOp'.events = <<>>]_vars

\* the user asked for the damaged file again: the file is gone and the new
\* record, with the expected hash, has the top row
C22_Witness ==
    /\ ftOp.op = "hash_error_yes"
    /\ ftOp.err = "none"
    /\ "t3" \in registry
    /\ files_props["t3"].hash_ = Some("h")
    /\ RowOf(model, files_props, "t3") = 1
    /\ disk = NoFiles
    /\ dialogs = EmptyBag

\* C23 as stated: after the recovery from a hash mismatch the old record is
\* neither in the registry nor in the list.
C23_OldRecordDiscarded ==
    /\ ftOp.op = "hash_error_yes"
    /\ ftOp.err = "none"
    => /\ ftOp.t \notin registry
       /\ RowsOf(model, files_props, ftOp.t) = {}

\* C24 as stated: whatever the user answers to the question of the hash
\* error, the damaged file is not on disk afterwards.
C24_DamagedFileDeleted ==
    ftOp.op \in {"hash_error_yes", "hash_error_no"}
    => files_props[ftOp.t].file_name[1] \notin DOMAIN disk

\* C25 as stated: the list holds at most one row of an active transfer, one
\* neither stopped nor completed, for each pair of type and sid.
C25_OneActiveRowPerSid ==
    \A t \in registry :
        ~files_props[t].stopped /\ ~files_props[t].completed
        => Cardinality(RowsOf(model, files_props, t)) <= 1

\* C26 as stated: cancel raises nothing and, when it returns, the transfer
\* was disconnected and its stopped flag is true.
C26_CancelTearsDown ==
    ftOp.op \in {"cancel", "cancel_no_connection"}
    => /\ ftOp.err = "none"
       /\ "disconnect_transfer" \in Range(ftOp.events)
       /\ files_props[ftOp.t].stopped


\* whether on_ok finds what makes it refuse: an existing file it may not
\* write, or no file and, where os.name is not nt, a directory it may not
\* write
Refused(env) ==
    \/ env.exists /\ ~env.file_access
    \/ ~env.exists /\ ~env.dir_access /\ env.os_name # "nt"

\* C29 as stated: when the existing file or the directory is not writable,
\* accepting the request shows an error, starts no receive, adds no row,
\* sends no approval and leaves the record alone.
C29_FileSystemErrorReported ==
    [][/\ ftOp'.op = "on_ok"
       /\ \/ ftOp'.env.exists /\ ~ftOp'.env.file_access
          \/ ~ftOp'.env.dir_access
       => /\ ftOp'.events = <<"ErrorDialog">>
          /\ model' = model
          /\ files_props' = files_props]_vars

\* C29 as amended: when the existing file is not writable, or there is no
\* file and the directory is not writable and os.name is not nt, on_ok shows
\* an error, adds no row, sends no approval and leaves the record alone; the
\* directory is not checked where a file that can be written stands at the
\* path, where the overwrite dialog opens, nor where os.name is nt, where
\* _start_receive runs and, the transfer not being in the list yet, adds its
\* row and sends the approval.
C29_FileSystemErrorReportedOffNt ==
    [][ftOp'.op = "on_ok"
       => /\ Refused(ftOp'.env)
             => /\ ftOp'.events = <<"ErrorDialog">>
                /\ ftOp'.err = "none"
                /\ model' = model
                /\ files_props' = files_props
                /\ registry' = registry
          /\ ftOp'.env.exists /\ ftOp'.env.file_access
             => /\ ftOp'.events[1] = "FTOverwriteConfirmationDialog"
                /\ "ErrorDialog" \notin Range(ftOp'.events)
                /\ model' = model
                /\ files_props' = files_props
          /\ ~ftOp'.env.exists /\ ftOp'.env.os_name = "nt"
             => /\ files_props'[ftOp'.t].file_name = Some("p")
                /\ "ErrorDialog" \notin Range(ftOp'.events)
                /\ RowsOf(model, files_props, ftOp'.t) = {}
                   => /\ ftOp'.events = <<"add_transfer",
                                         "send_file_approval">>
                      /\ Len(model') = Len(model) + 1]_vars

\* a partly received file that may not be written stands at the chosen
\* path: the error is shown and the request is as it was
C29_Witness ==
    /\ ftOp.op = "on_ok"
    /\ ftOp.env.exists
    /\ ~ftOp.env.file_access
    /\ disk["p"] = 1
    /\ ftOp.events = <<"ErrorDialog">>
    /\ files_props[ftOp.t].offset = 0
    /\ files_props[ftOp.t].file_name = None
    /\ model = <<>>

\* C27 as stated: a progress callback delivered a second time, for the same
\* transfer with the same byte count at the same time, yields the status,
\* the speed and the eta it yielded the first time.
C27_ProgressIdempotent ==
    [][/\ ftOp.op = "set_progress"
       /\ ftOp'.op = "set_progress"
       /\ ftOp'.t = ftOp.t
       /\ now' = now
       /\ files_props'[ftOp.t].received_len = files_props[ftOp.t].received_len
       /\ RowOf(model, files_props, ftOp.t) # 0
       /\ ftOp.err = "none"
       => /\ ftOp'.err = "none"
          /\ ftOp'.status = ftOp.status
          /\ ftOp'.speed = ftOp.speed
          /\ ftOp'.eta = ftOp.eta]_vars

\* C28: an operation on one content leaves every other content as it was,
\* flags, candidates and notifications; what a dispatch makes of its content
\* is a function of that content, the action and the stanza; sending
\* candidates changes no content.  The contents share the session's map only.
C28_ContentsIndependent ==
    [][/\ \A d \in Contents :
            d # lastOp'.c
            => /\ content'[d] = content[d]
               /\ negotiated_calls'[d] = negotiated_calls[d]
       /\ lastOp'.op = "on_stanza" /\ lastOp'.err = "none"
          => \E in \in InputsFor(HandlersOf(content[lastOp'.c],
                                            lastOp'.action),
                                 CandidateLists, BOOLEAN) :
                content'[lastOp'.c]
                    = on_stanza(content[lastOp'.c], lastOp'.action, in).self
       /\ lastOp'.op \in {"send_candidate", "send_error_candidate"}
          => content' = content]_vars

\* the first content was accepted by the peer and holds its candidates while
\* the second, accepted locally, has none and is not negotiated
C28_Witness ==
    /\ lastOp.op = "on_stanza"
    /\ lastOp.c = "c1"
    /\ lastOp.action = "session-accept"
    /\ content["c1"].negotiated
    /\ content["c1"].remote_candidates = <<"cand1">>
    /\ content["c2"].key # None
    /\ content["c2"].accepted
    /\ ~content["c2"].negotiated
    /\ content["c2"].remote_candidates = <<>>

\* the inbound actions whose list of handlers is empty
ReservedActions ==
    {"content-modify", "content-reject", "content-remove", "description-info",
     "security-info", "session-info", "session-terminate", "transport-reject",
     "iq-result", "iq-error"}

\* C30: an inbound action dispatched to a content raises nothing and leaves
\* accepted and sent alone; negotiated changes only with content-accept and
\* session-accept; content-add, session-initiate and transport-info change
\* the remote candidates at most; transport-replace and transport-accept
\* change nothing of the content and append the transport to the reply; the
\* reserved actions run no handler and change nothing.
C30_InboundFrame ==
    [][/\ lastOp'.op = "on_stanza"
       /\ lastOp'.action \in InboundActions
       /\ content[lastOp'.c].callbacks # None
       => LET c == lastOp'.c
              a == lastOp'.action
          IN /\ lastOp'.err = "none"
             /\ content'[c].accepted = content[c].accepted
             /\ content'[c].sent = content[c].sent
             /\ content'[c].negotiated # content[c].negotiated
                => a \in {"content-accept", "session-accept"}
             /\ a \in {"content-add", "session-initiate", "transport-info"}
                => /\ content'[c] =
                          [content[c] EXCEPT !.remote_candidates =
                              content'[c].remote_candidates]
                   /\ lastOp'.node = <<>>
                   /\ lastOp'.notes = <<>>
             /\ a \in {"transport-replace", "transport-accept"}
                => /\ content'[c] = content[c]
                   /\ lastOp'.node = <<"transport">>
                   /\ lastOp'.notes = <<>>
             /\ a \in ReservedActions
                => /\ content'[c] = content[c]
                   /\ lastOp'.ran = <<>>
                   /\ lastOp'.node = <<>>
                   /\ lastOp'.notes = <<>>
                   /\ negotiated_calls' = negotiated_calls]_vars

\* transport-replace reached an accepted content that holds candidates and
\* has sent nothing: the reply holds the transport, the flags are as before
C30_Witness ==
    /\ lastOp.op = "on_stanza"
    /\ lastOp.action = "transport-replace"
    /\ lastOp.node = <<"transport">>
    /\ content[lastOp.c].accepted
    /\ ~content[lastOp.c].sent
    /\ ~content[lastOp.c].negotiated
    /\ content[lastOp.c].remote_candidates # <<>>

\* C31: content-add-sent and session-initiate-sent leave sent true and
\* negotiated and accepted as they were; content-accept-sent and
\* session-accept-sent leave sent true, accepted as it was and negotiated
\* true exactly when accepted or negotiated was true at the dispatch;
\* session-terminate-sent changes no flag.
C31_SentActionsFlags ==
    [][/\ lastOp'.op = "on_stanza"
       /\ lastOp'.action \in SentActions
       /\ content[lastOp'.c].callbacks # None
       => LET c == lastOp'.c
              a == lastOp'.action
          IN /\ content'[c].accepted = content[c].accepted
             /\ a \in {"content-add-sent", "session-initiate-sent"}
                => /\ content'[c].sent
                   /\ content'[c].negotiated = content[c].negotiated
             /\ a \in {"content-accept-sent", "session-accept-sent"}
                => /\ content'[c].sent
                   /\ content'[c].negotiated
                        = (content[c].accepted \/ content[c].negotiated)
             /\ a = "session-terminate-sent"
                => /\ content'[c].sent = content[c].sent
                   /\ content'[c].negotiated = content[c].negotiated]_vars

\* session-accept-sent was dispatched to a content that is not accepted: it
\* is sent and not negotiated
C31_Witness ==
    /\ lastOp.op = "on_stanza"
    /\ lastOp.action = "session-accept-sent"
    /\ lastOp.ran = <<"fill_jingle_stanza", "on_content_accept">>
    /\ content[lastOp.c].sent
    /\ ~content[lastOp.c].accepted
    /\ ~content[lastOp.c].negotiated

\* C32: a dispatch that runs the transport-info handler leaves the remote
\* candidates equal to the list parsed from the stanza when that list is
\* not empty, whatever they were, and as they were when it is empty.
C32_CandidatesLastWriterWins ==
    [][/\ lastOp'.op = "on_stanza"
       /\ "on_transport_info" \in Range(lastOp'.ran)
       => content'[lastOp'.c].remote_candidates
            = IF lastOp'.cands # <<>> THEN lastOp'.cands
              ELSE content[lastOp'.c].remote_candidates]_vars

\* a stanza without candidates reached a content that holds some
C32_Witness ==
    /\ lastOp.op = "on_stanza"
    /\ lastOp.action = "transport-info"
    /\ lastOp.ran = <<"on_transport_info">>
    /\ lastOp.cands = <<>>
    /\ content[lastOp.c].remote_candidates = <<"cand2">>

\* C33: send_candidate hands the session one transport-info content whose
\* transport holds the candidate given and nothing else; send_error_candidate
\* hands it one whose transport holds no candidate and the candidate-error
\* marker; neither changes a content.
C33_CandidateSends ==
    [][/\ lastOp'.op = "send_candidate"
          => /\ lastOp'.out.kind = "transport-info"
             /\ Len(lastOp'.cands) = 1
             /\ lastOp'.out.candidates = lastOp'.cands
             /\ ~lastOp'.out.candidate_error
             /\ content' = content
       /\ lastOp'.op = "send_error_candidate"
          => /\ lastOp'.out.kind = "transport-info"
             /\ lastOp'.out.candidates = <<>>
             /\ lastOp'.out.candidate_error
             /\ content' = content]_vars

\* a candidate was sent from a content that holds the peer's candidates
C33_Witness ==
    /\ lastOp.op = "send_candidate"
    /\ lastOp.out.candidates = <<"cand1">>
    /\ content[lastOp.c].remote_candidates = <<"cand2">>
    /\ content[lastOp.c].accepted

\* C35: on a content that is not destroyed no step takes sent or negotiated
\* back from true to false.
C35_FlagsMonotone ==
    [][\A c \in Contents :
          content[c].callbacks # None
          => /\ content[c].sent => content'[c].sent
             /\ content[c].negotiated => content'[c].negotiated]_vars

\* a content that was negotiated and sent was sent once more
C35_Witness ==
    /\ lastOp.op = "on_stanza"
    /\ lastOp.action = "content-add-sent"
    /\ lastOp.again
    /\ content[lastOp.c].sent
    /\ content[lastOp.c].negotiated

\* C36: the peer's accept dispatched to a content that is not accepted
\* merges the candidates, leaves negotiated as it was and notifies nobody;
\* accepting the content locally changes neither negotiated nor the
\* notifications; negotiated turns true only in a run of the accept handler
\* or a call of on_negotiated.
C36_AcceptOrderMatters ==
    [][/\ /\ lastOp'.op = "on_stanza"
          /\ lastOp'.action \in {"content-accept", "session-accept"}
          /\ content[lastOp'.c].callbacks # None
          /\ ~content[lastOp'.c].accepted
          => /\ content'[lastOp'.c].negotiated = content[lastOp'.c].negotiated
             /\ lastOp'.notes = <<>>
             /\ negotiated_calls' = negotiated_calls
             /\ content'[lastOp'.c].remote_candidates
                  = IF lastOp'.cands # <<>> THEN lastOp'.cands
                    ELSE content[lastOp'.c].remote_candidates
       /\ lastOp'.op = "accept"
          => /\ content'[lastOp'.c].accepted
             /\ content'[lastOp'.c].negotiated = content[lastOp'.c].negotiated
             /\ negotiated_calls' = negotiated_calls
       /\ \A c \in Contents :
            content'[c].negotiated /\ ~content[c].negotiated
            => /\ lastOp'.c = c
               /\ \/ lastOp'.op = "on_negotiated"
                  \/ /\ lastOp'.op = "on_stanza"
                     /\ "on_content_accept" \in Range(lastOp'.ran)]_vars

\* the content was accepted locally after the peer's accept brought its
\* candidates: it is accepted and not negotiated
C36_Witness ==
    /\ lastOp.op = "accept"
    /\ content[lastOp.c].accepted
    /\ ~content[lastOp.c].negotiated
    /\ content[lastOp.c].remote_candidates # <<>>
    /\ negotiated_calls[lastOp.c] = 0

\* what C34 says of the answer to the overwrite dialog: resume sets the
\* offset to the size of the file and starts the receive, overwrite starts
\* it with the offset as it was, and closing the dialog starts no receive
\* and changes nothing
ResponseStartsReceive ==
    LET t == ftOp'.t
        started == <<"add_transfer", "send_file_approval">>
    IN /\ ftOp'.env.response = 100
          => /\ \E d \in BagToSet(dialogs) :
                  /\ dialogs' = dialogs (-) SetToBag({d})
                  /\ d.t = t
                  /\ files_props'[t].offset = d.dl_size
             /\ ftOp'.events = started
             /\ Len(model') = Len(model) + 1
       /\ ftOp'.env.response = 200
          => /\ files_props'[t].offset = files_props[t].offset
             /\ ftOp'.events = started
             /\ Len(model') = Len(model) + 1
       /\ ftOp'.env.response < 0
          => /\ files_props' = files_props
             /\ model' = model
             /\ registry' = registry
             /\ ftOp'.events = <<>>

\* what C34 says of on_ok where a file that can be written stands at the
\* path: the overwrite dialog opens, nothing starts, and the dialog proposes
\* to resume exactly when the file is shorter than the file offered
ProposesResume ==
    LET t == ftOp'.t
    IN /\ ftOp'.events[1] = "FTOverwriteConfirmationDialog"
       /\ ("propose_resume" \in Range(ftOp'.events))
            = (disk["p"] < files_props[t].size)
       /\ \E d \in BagToSet(dialogs') :
            /\ d.kind = "FTOverwriteConfirmationDialog"
            /\ d.t = t
            /\ d.dl_size = disk["p"]
            /\ d.propose_resume = (disk["p"] < files_props[t].size)
            /\ \E s \in BagToSet(dialogs) :
                 /\ s.kind = "FileSaveDialog"
                 /\ dialogs' = (dialogs (-) SetToBag({s})) (+) SetToBag({d})
       /\ files_props' = files_props
       /\ model' = model
       /\ "add_transfer" \notin Range(ftOp'.events)

C37_PauseToggle ==
    [][LET t == ftOp'.t
       IN /\ ftOp'.op = "continue"
             => /\ files_props[t].paused
                /\ ~files_props'[t].paused
                /\ files_props'[t].last_time = now'
                /\ ftOp'.events = IF files_props[t].continue_cb
                                  THEN <<"continue_cb">> ELSE <<>>
          /\ ftOp'.op = "pause"
             => /\ ~files_props[t].paused
                /\ files_props'[t].paused
                /\ ftOp'.events = <<>>
          /\ /\ ftOp'.op \in {"continue", "pause", "pause_restore"}
             /\ files_props[t].stopped \/ files_props[t].completed
             => /\ ftOp'.op = "pause_restore"
                /\ files_props' = files_props
                /\ model' = model
                /\ ftOp'.events = <<>>
          /\ ftOp.op = "pause" /\ ftOp'.op = "continue" /\ ftOp.t = t
             => ~files_props'[t].paused]_vars

\* the pause button was pressed on a transfer that had been paused and
\* continued and whose file was then received and verified: the transfer is
\* completed and not paused, and its row shows it as completed
C37_Witness ==
    /\ ftOp.op = "pause_restore"
    /\ ftOp.events = <<>>
    /\ files_props[ftOp.t].completed
    /\ ~files_props[ftOp.t].stopped
    /\ ~files_props[ftOp.t].paused
    /\ files_props[ftOp.t].last_time > 0
    /\ model[RowOf(model, files_props, ftOp.t)].image = "ok"

\* a transfer that cleanup counts as ended: stopped, completed or in error
Ended(t) ==
    \/ files_props[t].stopped
    \/ files_props[t].completed
    \/ files_props[t].error

\* a row that cleanup leaves: the row of a record of FilesProp that has not
\* ended
Stays(row) ==
    \E t \in registry :
        /\ row.sid = <<files_props[t].type_, files_props[t].sid>>
        /\ ~Ended(t)

\* C38 as stated: the cleanup button removes from the list, and from
\* FilesProp, the transfers that are stopped, completed or in error and no
\* other, and the rows that stay keep their order.
C38_CleanupRemovesEveryStopped ==
    [][ftOp'.op = "cleanup" =>
        /\ model' = SelectSeq(model, Stays)
        /\ registry' = {t \in registry : ~(RowOfRecord(t) # 0 /\ Ended(t))}
        /\ \A t \in registry' : files_props'[t] = files_props[t]]_vars

\* the last row of the list that has no sid, 0 when every row has one
LastRowWithoutSid ==
    LET without == {i \in DOMAIN model : model[i].sid = None}
    IN IF without = {} THEN 0
       ELSE CHOOSE i \in without : \A k \in without : k <= i

\* C38 as amended: the cleanup button goes through the rows from the last to
\* the first; when every row has a sid it raises nothing and removes from
\* the list, and from FilesProp, the transfers that are stopped, completed
\* or in error and no other; at a row without sid, which add_transfer
\* leaves when it raises, it raises TypeError and stops, so the rows below
\* that row are cleaned up and that row and the rows above it stay, ended
\* transfers among them; the rows that stay keep their order.
C38_CleanupRemovesStopped ==
    [][ftOp'.op = "cleanup" =>
        LET k == LastRowWithoutSid
            below == SubSeq(model, k + 1, Len(model))
        IN /\ ftOp'.err = IF k = 0 THEN "none" ELSE "TypeError"
           /\ model' = SubSeq(model, 1, k) \o SelectSeq(below, Stays)
           /\ registry' = {t \in registry :
                              ~(RowOfRecord(t) > k /\ Ended(t))}
           /\ \A t \in registry' : files_props'[t] = files_props[t]]_vars

\* the list held the row of a send that had failed and, above it, the row
\* without sid of a file request: the cleanup removed the send and its
\* record and stopped at the row without sid
C38_Witness ==
    /\ ftOp.op = "cleanup"
    /\ ftOp.err = "TypeError"
    /\ Len(model) = 1
    /\ model[1].sid = None
    /\ ftOp.events = <<"model.remove", "deleteFileProp">>
    /\ registry = {"t1"}

\* a send that was turned down: an error was shown, FilesProp, the records and
\* the list are as they were, and no transfer was started with the peer
SendRejected ==
    /\ \E i \in 1..Len(ftOp'.events) : ftOp'.events[i] = "ErrorDialog"
    /\ \A i \in 1..Len(ftOp'.events) : ftOp'.events[i] # "start_file_transfer"
    /\ registry' = registry
    /\ files_props' = files_props
    /\ model' = model

\* C39 as stated: a send of a path that is locked by another process, is not
\* a regular file or is empty is rejected with an error, no record is
\* created, no transfer is started and the list is as it was.
C39_BadFileRejected ==
    [][(/\ ftOp'.op = "send_file"
        /\ \/ ftOp'.file.locked
           \/ ~ftOp'.file.isfile
           \/ ftOp'.file.size = 0) => SendRejected]_vars

\* C39, amended: a send of a path that is not a regular file or is empty, or
\* that is locked by another process where os.name is nt and pywin32 is
\* there, is rejected with an error, no record is created, no transfer is
\* started and the list is as it was; any other file, a locked one where
\* locks are not looked at included, is sent.
C39_BadFileRejectedWhereSeen ==
    [][ftOp'.op = "send_file" =>
        LET file == ftOp'.file
            env == ftOp'.env
            seen_locked == /\ file.locked
                           /\ env.os_name = "nt"
                           /\ env.has_pywin32
        IN IF seen_locked \/ ~file.isfile \/ file.size = 0
           THEN SendRejected
           ELSE /\ registry' = registry \cup {ftOp'.t}
                /\ ftOp'.t \notin registry
                /\ files_props'[ftOp'.t].size = file.size
                /\ Len(model') = Len(model) + 1
                /\ model'[1].sid = <<"s", files_props'[ftOp'.t].sid>>
                /\ \E i \in 1..Len(ftOp'.events) :
                      ftOp'.events[i] = "start_file_transfer"]_vars

C39_Witness ==
    /\ ftOp.op = "send_file"
    /\ ftOp.file.locked
    /\ ftOp.file.isfile
    /\ ftOp.file.size = FileSize
    /\ ftOp.env.os_name = "nt"
    /\ ftOp.env.has_pywin32
    /\ ftOp.events = <<"ErrorDialog">>
    /\ registry = {"t1"}
    /\ Len(model) = 1

\* C40: adding a transfer to the list never marks it finished: whatever the
\* size, the direction and the resume offset of the record, after
\* add_transfer its completed and stopped flags are false, it has no sample,
\* and its status is waiting when it is not started and download or upload
\* when it is.
C40_AddNeverFinishes ==
    ftOp.op = "add_transfer" =>
        LET fp == files_props[ftOp.t]
        IN /\ ~fp.completed
           /\ ~fp.stopped
           /\ fp.transfered_size = <<>>
           /\ RowOfRecord(ftOp.t) # 0
           /\ model[RowOfRecord(ftOp.t)].image =
                  IF fp.started = FALSE THEN "waiting"
                  ELSE IF fp.type_ = "r" THEN "download"
                  ELSE "upload"
====
